---- MODULE Spec2Model ----
(***************************************************************************)
(* PodDigest: the digest production pipeline (Bull queues, six stage       *)
(* workers, orchestrator) and the analyzer's clip selection.               *)
(*                                                                         *)
(* The specifications of the module:                                      *)
(*   Spec        the pipeline: trigger, cron tick, stage workers, retry,   *)
(*               cancel, over the Digest / DigestClip rows and the queues. *)
(*   SelectSpec  selectClips as a pure function applied to bounded inputs. *)
(*   LengthSpec  selectClips on clip durations around the length limits.   *)
(*   TightSpec   selectClips on the tight 30-minute digest, in any order.  *)
(*   ScoreSpec   clampScore, computeWeightedScore and the score threshold. *)
(*   OrchestratorSpec  one call of triggerDigestPipeline or one run of the *)
(*               hourly check, on bounded Digest tables and clock values.  *)
(*   NarrationSpec  generateNarrationScripts on bounded LLM responses.      *)
(*   AssemblerSpec  one run of the assemble worker: assembleDigest step by  *)
(*               step, with a failure at any step, and the worker's end.   *)
(*   TranscriptionSpec  the transcribe handler and transcribeEpisode, one     *)
(*               step per awaited call, by concurrent workers.             *)
(*   HttpSpec    the HTTP trigger route and the pipeline queue's processor   *)
(*               next to the pipeline, the queue processors scheduled fairly.*)
(*   DurationSpec  parseDuration on bounded strings of characters.            *)
(*   CrawlSpec   crawlSubscribedFeeds on bounded feeds, any of which fails.    *)
(*   OrderSpec   orderClipsByStructure and the DigestClip rows created.       *)
(*                                                                         *)
(* Numbers: seconds are integers; the code's floating-point factors (0.3,  *)
(* 0.7, 1.3, 0.85, breadthDepth/100) are kept exact by cross-multiplying.  *)
(* Strings ordered by localeCompare (episode ids, podcast titles) are      *)
(* modelled by integers carrying the same order.  The assembler's times are *)
(* integers in tenths of a second (0.5 s = 5, 0.6 s = 6); the stored        *)
(* totalDuration is in whole seconds.                                      *)
(***************************************************************************)
EXTENDS Integers, Sequences, FiniteSets, TLC

\* ─── Bounds ──────────────────────────────────────────────────────────────
MaxDigests == 2      \* Digest rows ever created
MaxRetries == 1      \* retryFailedDigest calls on a FAILED digest
NumWorkers == 2      \* worker processes draining each stage queue
MaxCands == 3        \* candidates handed to selectClips in SelectSpec
MaxEpisodes == 1     \* episode ids a crawl hands on
MaxFaults == 3       \* exceptions thrown by stage processing, over all jobs
MaxCancels == 1      \* cancelDigest calls that pass the status check
MaxLengthCands == 2  \* candidates handed to selectClips in LengthSpec
MaxRejects == 1      \* retryFailedDigest / cancelDigest calls that are rejected
MaxCronRows == 1     \* Digest rows present before the call in OrchestratorSpec
MaxNarrClips == 2    \* clips of the digest in NarrationSpec
MaxPieces == 5       \* pieces of the LLM response between delimiters in NarrationSpec
MaxAsmClips == 2     \* clips of the digest in AssemblerSpec
MaxTxEpisodes == 2   \* episodes shared by the transcribe jobs in TranscriptionSpec
MaxTxJobs == 2       \* transcribe jobs queued in TranscriptionSpec
MaxDurationLen == 6  \* characters of the text handed to parseDuration in DurationSpec
MaxFeeds == 3        \* active subscriptions of the user in CrawlSpec
MaxOrderClips == 3   \* clips handed to the ordering step in OrderSpec

\* ─── Program constants ───────────────────────────────────────────────────
MIN_SCORE_THRESHOLD == 40
NARRATION_RATIO_PCT == 15
RecentEpisodesTake == 50
Attempts == 3

CLIP_LENGTH_RANGES ==
  [SHORT  |-> [min |-> 120, max |-> 240],
   MEDIUM |-> [min |-> 240, max |-> 480],
   LONG   |-> [min |-> 480, max |-> 900],
   MIXED  |-> [min |-> 120, max |-> 900]]

VARIABLES
  digests,      \* Digest table: digests[d] is the row of digest id d
  clipRows,     \* DigestClip table: clipRows[d] = positions of d's rows, in creation order
  jobs,         \* Bull: every job key present in Redis, over the six stage queues
  feeds,        \* object store: feeds[u] = digest ids listed in feeds/{u}/feed.xml
  retryNonce,   \* retryNonce[d] = number of retryFailedDigest calls made for d
  faults,       \* exceptions thrown by stage processing so far
  cancels,      \* cancelDigest calls so far that passed the status check
  budget,       \* the bounds of this run: digests, faults, cancels, retries
  cancelledInFlight, \* cancelledInFlight[d] = the latest stage (1..6) that was being
                     \* processed for d when its cancel succeeded, 0 if there is none
  transcripts,  \* Transcript table: the episodes that have a COMPLETED transcript
  noTranscripts, \* noTranscripts[d]: a transcribe run of d ended with no episode
                 \* transcribed, and d was not retried since
  rejects,      \* retryFailedDigest / cancelDigest calls so far that threw on the status check
  lastRejected, \* the latest such call: [op, d]
  selCandidates, selConfig, selResult, selPc,  \* SelectSpec: input, config, output
  scoreRaw,     \* ScoreSpec: the five dimension values of one parsed segment
  scoreOut,     \* ScoreSpec: clamped dimensions, weighted score, kept or dropped
  scorePc,
  lastCall,     \* OrchestratorSpec: the observed call, its inputs and what it did
  narrIn,       \* NarrationSpec: number of clips, pieces of the LLM response
  narrOut,      \* NarrationSpec: what generateNarrationScripts did
  asmIn,        \* AssemblerSpec: DigestClip rows, narrationAudios, transitionStyle
  asmPc,        \* AssemblerSpec: position in the assemble handler
  tempDir,      \* the scratch directory {tmpdir}/poddigest/{digestId}: exists, files
  asmRun,       \* what the try block of assembleDigest did
  digestAudio,  \* object store: an object is stored at digests/{digestId}/digest.mp3
  asmStored,    \* columns audioUrl, totalDuration, chapters written by the assemble worker
  episodeRows,  \* Episode table: transcriptStatus of each episode
  transcriptTable,  \* Transcript table: the row of each episode, status none when there is no row
  txQueue,  \* TranscriptionSpec: transcribe jobs waiting, each its episodeIds
  txWorkers,  \* TranscriptionSpec: each worker's position in the handler
  txLast,  \* TranscriptionSpec: the latest call made, by which worker, for which episode
  deepgramKeySet, \* DEEPGRAM_API_KEY is set
  durationStr,  \* DurationSpec: the text handed to parseDuration, as its characters
  durOut, \* DurationSpec: what parseDuration returned
  crawlIn,  \* CrawlSpec: the user's subscriptions, each feed and each podcast's lastCrawledAt
  crawlOut, \* CrawlSpec: what crawlSubscribedFeeds returned and wrote
  orderIn,  \* OrderSpec: the clips selected and the config's structure
  orderOut  \* OrderSpec: the ordered clips and the DigestClip rows created

vars == <<digests, clipRows, jobs, feeds, retryNonce, faults, cancels, budget, cancelledInFlight,
          transcripts, noTranscripts, rejects, lastRejected,
          selCandidates, selConfig, selResult, selPc, scoreRaw, scoreOut, scorePc,
          lastCall, narrIn, narrOut, asmIn, asmPc, tempDir, asmRun, digestAudio, asmStored,
          episodeRows, transcriptTable, txQueue, txWorkers, txLast, deepgramKeySet,
          durationStr, durOut,
          crawlIn, crawlOut,
          orderIn, orderOut>>
pipeVars == <<digests, clipRows, jobs, feeds, retryNonce, faults, cancels, budget, cancelledInFlight,
              transcripts, noTranscripts, rejects, lastRejected>>
selVars == <<selCandidates, selConfig, selResult, selPc>>
scoreVars == <<scoreRaw, scoreOut, scorePc>>
orchVars == <<lastCall>>
narrVars == <<narrIn, narrOut>>
asmVars == <<asmIn, asmPc, tempDir, asmRun, digestAudio, asmStored>>
txVars == <<episodeRows, transcriptTable, txQueue, txWorkers, txLast, deepgramKeySet>>
durVars == <<durationStr, durOut>>
crawlVars == <<crawlIn, crawlOut>>
orderVars == <<orderIn, orderOut>>
svcVars == <<txVars, durVars, crawlVars, orderVars>>
auxVars == <<orchVars, narrVars, asmVars, svcVars>>

Max(a, b) == IF a >= b THEN a ELSE b

\* The runs explored: several digests side by side without faults, one
\* digest with stage exceptions, a cancel and a retry, or one digest with one
\* stage exception, a cancel, a retry and rejected calls.
Scenarios ==
  {[digests |-> MaxDigests, faults |-> 0, cancels |-> 0, retries |-> 0, rejects |-> 0],
   [digests |-> 1, faults |-> MaxFaults, cancels |-> MaxCancels, retries |-> MaxRetries,
    rejects |-> 0],
   [digests |-> 1, faults |-> 1, cancels |-> MaxCancels, retries |-> MaxRetries,
    rejects |-> MaxRejects]}

\* ═════════════════════════════════════════════════════════════════════════
\* Analyzer: clip selection
\* ═════════════════════════════════════════════════════════════════════════

\* clipDuration = candidate.endTime - candidate.startTime
clipDuration(candidate) == candidate.endTime - candidate.startTime

\* lengthRange = CLIP_LENGTH_RANGES[config.clipLengthPref] ?? CLIP_LENGTH_RANGES.MIXED
lengthRange(config) ==
  IF config.clipLengthPref \in DOMAIN CLIP_LENGTH_RANGES
    THEN CLIP_LENGTH_RANGES[config.clipLengthPref]
    ELSE CLIP_LENGTH_RANGES.MIXED

effectiveMin1000NoBreadth(config) ==
  1000 * lengthRange(config).min

\* effectiveMin = min + (breadthDepth/100) * (max - min) * 0.3, times 1000
effectiveMin1000(config) ==
  LET r == lengthRange(config)
  IN 1000 * r.min + 3 * config.breadthDepth * (r.max - r.min)

\* effectiveMax = max - (1 - breadthDepth/100) * (max - min) * 0.3, times 1000
effectiveMax1000(config) ==
  LET r == lengthRange(config)
  IN 1000 * r.max - 3 * (100 - config.breadthDepth) * (r.max - r.min)

OutsideLengthRangeNoUpper(candidate, config) ==
  10000 * clipDuration(candidate) < 7 * effectiveMin1000(config)

\* clipDuration < effectiveMin * 0.7 || clipDuration > effectiveMax * 1.3
OutsideLengthRange(candidate, config) ==
  \/ 10000 * clipDuration(candidate) < 7 * effectiveMin1000(config)
  \/ 10000 * clipDuration(candidate) > 13 * effectiveMax1000(config)

availableSeconds100WholeTarget(config) ==
  config.targetLengthMinutes * 60 * 100

\* availableSeconds = targetLengthMinutes * 60 * (1 - NARRATION_RATIO), times 100
availableSeconds100(config) ==
  config.targetLengthMinutes * 60 * (100 - NARRATION_RATIO_PCT)

ExceedsAvailableNoReserve(totalDuration, candidate, config) ==
  100 * (totalDuration + clipDuration(candidate)) > config.targetLengthMinutes * 60 * 100

\* totalDuration + clipDuration > availableSeconds
ExceedsAvailable(totalDuration, candidate, config) ==
  100 * (totalDuration + clipDuration(candidate)) > availableSeconds100(config)

maxClipsPerEpisodeOffByOne(config) ==
  Max(1, (150 + 4 * config.breadthDepth) \div 100) + 1

\* Math.max(1, Math.round(1 + breadthFactor * 4)); Math.round(x) = floor(x + 0.5)
maxClipsPerEpisode(config) ==
  Max(1, (150 + 4 * config.breadthDepth) \div 100)

hasOverlapSameStart(selected, candidate) ==
  \E k \in 1..Len(selected) :
    /\ selected[k].episodeId = candidate.episodeId
    /\ selected[k].startTime = candidate.startTime

\* selected.some(existing => same episode && existing.start < cand.end && existing.end > cand.start)
hasOverlap(selected, candidate) ==
  \E k \in 1..Len(selected) :
    /\ selected[k].episodeId = candidate.episodeId
    /\ selected[k].startTime < candidate.endTime
    /\ selected[k].endTime > candidate.startTime

\* The comparators handed to Array.prototype.sort: negative, zero or positive.
Compare(kind, a, b) ==
  CASE kind = "SCORE_DESC" -> b.score - a.score
    [] kind = "BY_SCORE" -> b.score - a.score
    [] kind = "BY_SHOW" ->
         IF a.podcastTitle # b.podcastTitle THEN a.podcastTitle - b.podcastTitle
         ELSE a.startTime - b.startTime
    [] kind = "BY_TOPIC" ->
         IF a.podcastTitle # b.podcastTitle THEN a.podcastTitle - b.podcastTitle
         ELSE b.score - a.score
    [] kind = "CHRONOLOGICAL" ->
         IF a.episodeId # b.episodeId THEN a.episodeId - b.episodeId
         ELSE a.startTime - b.startTime
    [] OTHER -> 0

\* x goes before the first element that the comparator puts after it
InsertStable(kind, sorted, x) ==
  LET later == {i \in 1..Len(sorted) : Compare(kind, sorted[i], x) > 0}
      at == IF later = {} THEN Len(sorted) + 1
            ELSE CHOOSE i \in later : \A k \in later : i <= k
  IN SubSeq(sorted, 1, at - 1) \o <<x>> \o SubSeq(sorted, at, Len(sorted))

RECURSIVE SortFrom(_, _, _, _)
SortFrom(kind, s, i, acc) ==
  IF i > Len(s) THEN acc
  ELSE SortFrom(kind, s, i + 1, InsertStable(kind, acc, s[i]))

\* [...s].sort(comparator): Array.prototype.sort is stable
StableSort(kind, s) == SortFrom(kind, s, 1, <<>>)

orderClipsByStructureTopicAsShow(clips, structure) ==
  IF structure \in {"BY_SCORE", "BY_SHOW", "CHRONOLOGICAL"}
    THEN StableSort(structure, clips)
    ELSE IF structure = "BY_TOPIC" THEN StableSort("BY_SHOW", clips)
    ELSE clips

orderClipsByStructure(clips, structure) ==
  IF structure \in {"BY_SCORE", "BY_SHOW", "BY_TOPIC", "CHRONOLOGICAL"}
    THEN StableSort(structure, clips)
    ELSE clips

RECURSIVE SelectLoop(_, _, _, _, _, _)
SelectLoop(sorted, i, selected, totalDuration, episodeClipCounts, config) ==
  IF i > Len(sorted) THEN selected
  ELSE
    LET candidate == sorted[i]
        episodeCount == IF candidate.episodeId \in DOMAIN episodeClipCounts
                          THEN episodeClipCounts[candidate.episodeId] ELSE 0
        skip == SelectLoop(sorted, i + 1, selected, totalDuration, episodeClipCounts, config)
    IN IF OutsideLengthRange(candidate, config) THEN skip
       ELSE IF ExceedsAvailable(totalDuration, candidate, config) THEN skip
       ELSE IF episodeCount >= maxClipsPerEpisode(config) THEN skip
       ELSE IF hasOverlap(selected, candidate) THEN skip
       ELSE
         LET selected2 == Append(selected, candidate)
             total2 == totalDuration + clipDuration(candidate)
             counts2 == [e \in DOMAIN episodeClipCounts \cup {candidate.episodeId} |->
                           IF e = candidate.episodeId THEN episodeCount + 1
                           ELSE episodeClipCounts[e]]
         IN IF 100 * total2 >= availableSeconds100(config) THEN selected2
            ELSE SelectLoop(sorted, i + 1, selected2, total2, counts2, config)

selectClips(candidates, config) ==
  IF Len(candidates) = 0 THEN <<>>
  ELSE orderClipsByStructure(
         SelectLoop(StableSort("SCORE_DESC", candidates), 1, <<>>, 0, <<>>, config),
         config.structure)


\* ═════════════════════════════════════════════════════════════════════════
\* Analyzer: scoring of a segment
\* ═════════════════════════════════════════════════════════════════════════
\* The weighted score is computed in IEEE 754 double arithmetic.  Every
\* double met here is a multiple of 1/20 plus a rounding error that is a
\* whole multiple of DoubleUnit = 2^-57 / 5; [n, err] stands for the double
\* n/20 + err * DoubleUnit.  One is 5 * 2^57 units, 1/20 is 2^55 units.

RECURSIVE Pow2(_)
Pow2(k) == IF k <= 0 THEN 1 ELSE 2 * Pow2(k - 1)

\* 2^k mod 5
Pow2Mod5(k) == <<1, 2, 4, 3>>[(k % 4) + 1]

\* 2^ex <= n/20 + err * DoubleUnit, for a positive value
AtLeastPow2(n, err, ex) ==
  LET lhs == n * Pow2(0 - ex)
      rhs == 20 * Pow2(ex)
  IN lhs > rhs \/ (lhs = rhs /\ err >= 0)

\* the binary exponent of a positive value between 1/32 and 128
DoubleExponent(n, err) ==
  CHOOSE ex \in (0 - 5)..6 :
    AtLeastPow2(n, err, ex) /\ (ex < 6 => ~AtLeastPow2(n, err, ex + 1))

\* round to nearest, ties to even, with a 53-bit significand: the ulp of a
\* value with exponent ex is 2^(ex-52), that is 5 * 2^(ex+5) units
RoundToDouble(n, err) ==
  IF n = 0 /\ err = 0 THEN [n |-> 0, err |-> 0]
  ELSE
    LET ex == DoubleExponent(n, err)
        ulp == 5 * Pow2(ex + 5)
        r2 == (Pow2(ex + 6) * ((n * Pow2Mod5(49 - ex)) % 5) + err) % (2 * ulp)
        r == r2 % ulp
        odd == r2 >= ulp
    IN IF r = 0 THEN [n |-> n, err |-> err]
       ELSE IF 2 * r < ulp \/ (2 * r = ulp /\ ~odd) THEN [n |-> n, err |-> err - r]
       ELSE [n |-> n, err |-> err + ulp - r]

\* DIMENSION_WEIGHTS as doubles: 0.25 is exact, the double 0.20 is
\* 0.2 + 8 units, the double 0.15 is 0.15 - 4 units
DIMENSION_WEIGHTS ==
  [insightDensity |-> [n |-> 5, err |-> 0],
   emotionalIntensity |-> [n |-> 4, err |-> 8],
   actionability |-> [n |-> 4, err |-> 8],
   topicalRelevance |-> [n |-> 4, err |-> 8],
   conversationalQuality |-> [n |-> 3, err |-> 0 - 4]]

\* dimension * weight, for a whole dimension value
DoubleTimes(k, weight) == RoundToDouble(k * weight.n, k * weight.err)

\* a + b
DoublePlus(a, b) == RoundToDouble(a.n + b.n, a.err + b.err)

\* a < k, for a whole number k
DoubleLess(a, k) == a.n < 20 * k \/ (a.n = 20 * k /\ a.err < 0)

\* clampScore of a raw value: isNaN is set for a value Number() cannot
\* convert, a number is given in halves; Math.round(x) = floor(x + 0.5)
clampScore(value) ==
  IF value.isNaN THEN 0
  ELSE LET rounded == (value.halves + 1) \div 2
       IN Max(0, IF rounded > 100 THEN 100 ELSE rounded)

computeWeightedScore(dimensions) ==
  DoublePlus(
    DoublePlus(
      DoublePlus(
        DoublePlus(DoubleTimes(dimensions[1], DIMENSION_WEIGHTS.insightDensity),
                   DoubleTimes(dimensions[2], DIMENSION_WEIGHTS.emotionalIntensity)),
        DoubleTimes(dimensions[3], DIMENSION_WEIGHTS.actionability)),
      DoubleTimes(dimensions[4], DIMENSION_WEIGHTS.topicalRelevance)),
    DoubleTimes(dimensions[5], DIMENSION_WEIGHTS.conversationalQuality))


\* ═════════════════════════════════════════════════════════════════════════
\* Pipeline: tables, queues, workers, orchestrator
\* ═════════════════════════════════════════════════════════════════════════

\* The six stage queues in pipeline order (queue names without "poddigest:")
Stages == <<"crawl", "transcribe", "analyze", "narrate", "assemble", "deliver">>

\* allQueues, in the order cancelDigest walks them
AllQueues == Stages \o <<"pipeline">>

\* DigestStatus, in stage order; FAILED stands apart
StatusOrder == <<"PENDING", "CRAWLING", "TRANSCRIBING", "ANALYZING",
                 "NARRATING", "ASSEMBLING", "DELIVERING", "COMPLETED">>

Terminal == {"COMPLETED", "FAILED"}

\* The status each stage worker writes on entry
InProgressStatus ==
  [crawl |-> "CRAWLING", transcribe |-> "TRANSCRIBING", analyze |-> "ANALYZING",
   narrate |-> "NARRATING", assemble |-> "ASSEMBLING", deliver |-> "DELIVERING"]

\* The message of the error each stage's processing throws: the text of the
\* worker's own throw, or whatever message the failing service call carried
StageError ==
  [crawl |-> "No episodes found for digest",
   transcribe |-> "No episodes were successfully transcribed",
   analyze |-> "No completed transcripts found",
   narrate |-> "error.message",
   assemble |-> "error.message",
   deliver |-> "error.message"]

Users == {"u1", "u2"}

\* DigestConfig rows, in findMany order
ConfigIds == <<"c1", "c2">>

DigestConfigs ==
  [c1 |-> [userId |-> "u1", isActive |-> TRUE, deliveryMethod |-> "PRIVATE_RSS",
           targetLengthMinutes |-> 30, clipLengthPref |-> "MEDIUM",
           breadthDepth |-> 50, structure |-> "BY_SCORE",
           deliveryDay |-> "monday", deliveryTime |-> <<8, 0>>],
   c2 |-> [userId |-> "u2", isActive |-> FALSE, deliveryMethod |-> "IN_APP",
           targetLengthMinutes |-> 30, clipLengthPref |-> "MEDIUM",
           breadthDepth |-> 50, structure |-> "BY_SCORE",
           deliveryDay |-> "monday", deliveryTime |-> <<8, 0>>]]

\* Instants at which the hourly check runs: UTC weekday (0 = Sunday) and UTC hour
Nows == [utcDay : {1, 2}, utcHours : {8, 17}]

\* Scored segments the LLM can return to one analyze run
AnalyzeInputs ==
  LET a == [episodeId |-> 1, podcastTitle |-> 1, startTime |-> 0, endTime |-> 300, score |-> 80]
      b == [episodeId |-> 2, podcastTitle |-> 2, startTime |-> 60, endTime |-> 360, score |-> 60]
      c == [episodeId |-> 1, podcastTitle |-> 1, startTime |-> 400, endTime |-> 700, score |-> 30]
  IN {<<c>>, <<b, c, a>>}

DigestIds == 1..Len(digests)

\* ─── Bull ────────────────────────────────────────────────────────────────
\* A job key exists in Redis from add until it is removed; completed and
\* failed jobs are retained (removeOnComplete: 100, removeOnFail: 50).
\* nonce 0 is the id "{queue}-{digestId}", nonce n > 0 is "crawl-retry-{digestId}-{n}",
\* nonce -1 on the pipeline queue is "digest-{digestId}".

HasJob(js, queue, d, nonce) ==
  \E j \in js : j.queue = queue /\ j.digestId = d /\ j.nonce = nonce

\* queue.add(data, { jobId }): a no-op when a job with that id exists
AddJob(js, queue, d, nonce, payload) ==
  IF HasJob(js, queue, d, nonce) THEN js
  ELSE js \cup {[queue |-> queue, digestId |-> d, nonce |-> nonce, state |-> "waiting",
                 attemptsMade |-> 0, payload |-> payload, episodeIds |-> <<>>,
                 userId |-> "", configId |-> ""]}

\* crawlQueue.add({ digestId, userId, configId }, { jobId }) of the orchestrator
AddPipelineJob(js, d, nonce, userId, configId) ==
  IF HasJob(js, "crawl", d, nonce) THEN js
  ELSE js \cup {[queue |-> "crawl", digestId |-> d, nonce |-> nonce, state |-> "waiting",
                 attemptsMade |-> 0, payload |-> 0, episodeIds |-> <<>>,
                 userId |-> userId, configId |-> configId]}

\* queue.add({ digestId, episodeIds }, { jobId }) of the crawl and transcribe workers
AddEpisodesJobDropped(js, queue, d, nonce, episodeIds) == js

AddEpisodesJob(js, queue, d, nonce, episodeIds) ==
  IF HasJob(js, queue, d, nonce) THEN js
  ELSE js \cup {[queue |-> queue, digestId |-> d, nonce |-> nonce, state |-> "waiting",
                 attemptsMade |-> 0, payload |-> Len(episodeIds), episodeIds |-> episodeIds,
                 userId |-> "", configId |-> ""]}

\* the handler returned: the job is moved to completed.  Of a retained
\* (completed or failed) job only the key and the state are kept.
CompleteJob(js, j) ==
  (js \ {j}) \cup {[j EXCEPT !.state = "completed", !.attemptsMade = 0, !.payload = 0,
                              !.episodeIds = <<>>]}

\* the handler threw: attempts: 3 puts the job back (after backoff) until
\* the third attempt has failed
FailJobAlwaysRequeue(js, j) ==
  (js \ {j}) \cup {[j EXCEPT !.attemptsMade = j.attemptsMade + 1, !.state = "waiting"]}

FailJob(js, j) ==
  (js \ {j}) \cup
    {IF j.attemptsMade + 1 < Attempts
       THEN [j EXCEPT !.attemptsMade = j.attemptsMade + 1, !.state = "waiting"]
       ELSE [j EXCEPT !.attemptsMade = 0, !.state = "failed", !.payload = 0,
                      !.episodeIds = <<>>]}

ActiveJobs(queue) == {j \in jobs : j.queue = queue /\ j.state = "active"}

\* ─── Orchestrator ────────────────────────────────────────────────────────

\* the call throws on its status check before it has written anything
Rejected(op, d) ==
  /\ rejects < budget.rejects
  /\ rejects' = rejects + 1
  /\ lastRejected' = [op |-> op, d |-> d]

NewDigest(userId, configId) ==
  [userId |-> userId, configId |-> configId, status |-> "PENDING", error |-> "null",
   clipCount |-> 0, audioUrl |-> FALSE]

\* triggerDigestPipeline past the ownership check: create the row, queue the crawl
triggerDigestPipelineNoJob(ds, js, userId, configId) ==
  [digests |-> Append(ds, NewDigest(userId, configId)), jobs |-> js]

triggerDigestPipeline(ds, js, userId, configId) ==
  [digests |-> Append(ds, NewDigest(userId, configId)),
   jobs |-> AddPipelineJob(js, Len(ds) + 1, 0, userId, configId)]

Trigger(userId, configId) ==
  /\ Len(digests) < budget.digests
  /\ IF DigestConfigs[configId].userId # userId
       THEN UNCHANGED <<digests, jobs>>
       ELSE LET r == triggerDigestPipeline(digests, jobs, userId, configId)
            IN digests' = r.digests /\ jobs' = r.jobs
  /\ UNCHANGED <<clipRows, feeds, retryNonce, faults, cancels, cancelledInFlight, transcripts, noTranscripts, rejects, lastRejected, selVars, scoreVars, auxVars, budget>>

\* "Monday".toLowerCase() and the like
toLowerCase(str) ==
  CASE str = "Monday" -> "monday"
    [] str = "MONDAY" -> "monday"
    [] str = "Tuesday" -> "tuesday"
    [] OTHER -> str

dayNames == <<"sunday", "monday", "tuesday", "wednesday", "thursday", "friday", "saturday">>

isDeliveryDueDayOnly(deliveryDay, deliveryTime, now) ==
  dayNames[now.utcDay + 1] = toLowerCase(deliveryDay)

\* deliveryTime is the "HH:MM" text split on ":" and mapped through Number
isDeliveryDue(deliveryDay, deliveryTime, now) ==
  LET currentDay == dayNames[now.utcDay + 1]
  IN IF currentDay # toLowerCase(deliveryDay) THEN FALSE
     ELSE LET hours == deliveryTime[1]
              currentHour == now.utcHours
          IN currentHour = hours

\* What a call of triggerDigestPipeline from the hourly check does: it
\* returns, or a database call throws before the row exists ("create"), or
\* crawlQueue.add rejects after the row was created ("add")
TriggerOutcomes == {"ok", "create", "add"}

\* The loop of the hourly check over the active configs (ids, in findMany
\* order); calls = the configs triggerDigestPipeline was called for, in order
RECURSIVE CronLoop(_, _, _, _, _, _, _, _)
CronLoop(i, ids, cfgs, now, outcome, ds, js, calls) ==
  IF i > Len(ids) THEN [digests |-> ds, jobs |-> js, calls |-> calls]
  ELSE
    LET c == ids[i]
        inProgress == \E d \in 1..Len(ds) :
                        ds[d].configId = c /\ ds[d].status \notin Terminal
    IN IF ~cfgs[c].isActive THEN CronLoop(i + 1, ids, cfgs, now, outcome, ds, js, calls)
       ELSE IF inProgress THEN CronLoop(i + 1, ids, cfgs, now, outcome, ds, js, calls)
       ELSE IF ~isDeliveryDue(cfgs[c].deliveryDay, cfgs[c].deliveryTime, now)
         THEN CronLoop(i + 1, ids, cfgs, now, outcome, ds, js, calls)
       ELSE LET r == triggerDigestPipeline(ds, js, cfgs[c].userId, c)
                called == Append(calls, c)
            IN CASE outcome[c] = "ok" ->
                      CronLoop(i + 1, ids, cfgs, now, outcome, r.digests, r.jobs, called)
                 [] outcome[c] = "add" ->
                      CronLoop(i + 1, ids, cfgs, now, outcome, r.digests, js, called)
                 [] OTHER ->
                      CronLoop(i + 1, ids, cfgs, now, outcome, ds, js, called)

\* The hourly pipeline-queue job, run at some instant
CronTick ==
  /\ Len(digests) + Cardinality({i \in 1..Len(ConfigIds) : DigestConfigs[ConfigIds[i]].isActive})
       <= budget.digests
  /\ \E now \in Nows :
       LET r == CronLoop(1, ConfigIds, DigestConfigs, now,
                         [c \in DOMAIN DigestConfigs |-> "ok"], digests, jobs, <<>>)
       IN digests' = r.digests /\ jobs' = r.jobs
  /\ UNCHANGED <<clipRows, feeds, retryNonce, faults, cancels, cancelledInFlight, transcripts, noTranscripts, rejects, lastRejected, selVars, scoreVars, auxVars, budget>>

retryFailedDigestAnyStatus(d) ==
  /\ d \in DigestIds
  /\ retryNonce[d] < budget.retries
  /\ digests' = [digests EXCEPT ![d].status = "PENDING", ![d].error = "null"]
  /\ jobs' = AddPipelineJob(jobs, d, retryNonce[d] + 1, digests[d].userId,
                                  digests[d].configId)
  /\ retryNonce' = [retryNonce EXCEPT ![d] = @ + 1]
  /\ cancelledInFlight' = [cancelledInFlight EXCEPT ![d] = 0]
  /\ noTranscripts' = [noTranscripts EXCEPT ![d] = FALSE]
  /\ UNCHANGED <<clipRows, feeds, faults, cancels, transcripts, rejects, lastRejected, selVars, scoreVars, auxVars, budget>>

retryFailedDigest(d) ==
  /\ d \in DigestIds
  /\ retryNonce[d] < budget.retries
  /\ IF digests[d].status # "FAILED"
       THEN /\ Rejected("retry", d)
            /\ UNCHANGED <<digests, jobs, retryNonce, cancelledInFlight, noTranscripts>>
       ELSE /\ digests' = [digests EXCEPT ![d].status = "PENDING", ![d].error = "null"]
            /\ jobs' = AddPipelineJob(jobs, d, retryNonce[d] + 1, digests[d].userId,
                                  digests[d].configId)
            /\ retryNonce' = [retryNonce EXCEPT ![d] = @ + 1]
            /\ cancelledInFlight' = [cancelledInFlight EXCEPT ![d] = 0]
            /\ noTranscripts' = [noTranscripts EXCEPT ![d] = FALSE]
            /\ UNCHANGED <<rejects, lastRejected>>
  /\ UNCHANGED <<clipRows, feeds, faults, cancels, transcripts, selVars, scoreVars, auxVars, budget>>

\* The loop of cancelDigest over allQueues: getJob("{queue}-{d}"), remove if found.
\* Bull refuses to remove a job that is locked by a worker (job.remove rejects
\* with "Could not remove job"), which aborts cancelDigest at that queue.
RECURSIVE CancelLoop(_, _, _)
CancelLoop(i, d, js) ==
  IF i > Len(AllQueues) THEN [jobs |-> js, threw |-> FALSE]
  ELSE
    LET found == {j \in js : j.queue = AllQueues[i] /\ j.digestId = d /\ j.nonce = 0}
    IN IF found = {} THEN CancelLoop(i + 1, d, js)
       ELSE IF \E j \in found : j.state = "active" THEN [jobs |-> js, threw |-> TRUE]
       ELSE CancelLoop(i + 1, d, js \ found)

\* the latest stage of d a worker is processing, 0 if none is
StageInFlight(js, d) ==
  LET active == {i \in 1..Len(Stages) :
                   \E j \in js : j.queue = Stages[i] /\ j.digestId = d /\ j.state = "active"}
  IN IF active = {} THEN 0 ELSE CHOOSE i \in active : \A k \in active : k <= i

cancelDigestAnyStatus(d) ==
  /\ d \in DigestIds
  /\ LET r == CancelLoop(1, d, jobs)
     IN /\ cancels < budget.cancels
        /\ cancels' = cancels + 1
        /\ jobs' = r.jobs
        /\ IF r.threw
             THEN UNCHANGED <<digests, cancelledInFlight>>
             ELSE /\ digests' = [digests EXCEPT ![d].status = "FAILED",
                                                ![d].error = "Cancelled by user"]
                  /\ cancelledInFlight' =
                       [cancelledInFlight EXCEPT ![d] = StageInFlight(jobs, d)]
  /\ UNCHANGED <<clipRows, feeds, retryNonce, faults, transcripts, noTranscripts, rejects, lastRejected, selVars, scoreVars, auxVars, budget>>

cancelDigest(d) ==
  /\ d \in DigestIds
  /\ IF digests[d].status \in Terminal
       THEN /\ Rejected("cancel", d)
            /\ UNCHANGED <<digests, jobs, cancels, cancelledInFlight>>
       ELSE LET r == CancelLoop(1, d, jobs)
            IN /\ cancels < budget.cancels
               /\ cancels' = cancels + 1
               /\ jobs' = r.jobs
               /\ IF r.threw
                    THEN UNCHANGED <<digests, cancelledInFlight>>
                    ELSE /\ digests' = [digests EXCEPT ![d].status = "FAILED",
                                                       ![d].error = "Cancelled by user"]
                         /\ cancelledInFlight' =
                              [cancelledInFlight EXCEPT ![d] = StageInFlight(jobs, d)]
               /\ UNCHANGED <<rejects, lastRejected>>
  /\ UNCHANGED <<clipRows, feeds, retryNonce, faults, transcripts, noTranscripts, selVars, scoreVars, auxVars, budget>>


\* ─── Stage workers ───────────────────────────────────────────────────────
\* Every handler is two steps: the entry (a worker takes the job and writes
\* the in-progress status) and the rest of the handler (its processing, then
\* either the hand-off to the next queue or the catch block).

\* queue.process(handler), up to the first status write
StageStart(j) ==
  /\ j \in jobs
  /\ j.state = "waiting"
  /\ j.queue \in DOMAIN InProgressStatus
  /\ Cardinality(ActiveJobs(j.queue)) < NumWorkers
  /\ jobs' = (jobs \ {j}) \cup {[j EXCEPT !.state = "active"]}
  /\ digests' = [digests EXCEPT ![j.digestId].status = InProgressStatus[j.queue]]
  /\ UNCHANGED <<clipRows, feeds, retryNonce, faults, cancels, cancelledInFlight, transcripts, noTranscripts, rejects, lastRejected, selVars, scoreVars, auxVars, budget>>

\* The catch block shared by the six workers: status FAILED, error text, rethrow
StageCatch(j) ==
  /\ digests' = [digests EXCEPT ![j.digestId].status = "FAILED",
                                ![j.digestId].error = StageError[j.queue]]
  /\ jobs' = FailJob(jobs, j)

\* The processing of any stage throws before it has written anything
StageThrow(j) ==
  /\ j \in jobs
  /\ j.state = "active"
  /\ faults < budget.faults
  /\ StageCatch(j)
  /\ faults' = faults + 1
  /\ UNCHANGED <<clipRows, feeds, retryNonce, cancels, cancelledInFlight, transcripts, noTranscripts, rejects, lastRejected, selVars, scoreVars, auxVars, budget>>

\* the lists of episode ids a query can return
EpisodeLists ==
  UNION {{q \in [1..n -> 1..MaxEpisodes] : \A i, k \in 1..n : q[i] = q[k] => i = k} :
           n \in 0..MaxEpisodes}

\* findMany({ ..., take })
Take(rows, n) == SubSeq(rows, 1, IF Len(rows) < n THEN Len(rows) ELSE n)

\* crawl worker: the new episodes of the feed crawl or, when there is none,
\* the recent episodes of the user's active subscriptions published since
\* weekStart; with no episode at all the handler throws
CrawlFinish(j) ==
  /\ j \in jobs /\ j.queue = "crawl" /\ j.state = "active"
  /\ \E newEpisodeIds \in EpisodeLists, recentEpisodes \in EpisodeLists :
       LET episodeIds == IF Len(newEpisodeIds) = 0
                           THEN Take(recentEpisodes, RecentEpisodesTake)
                           ELSE newEpisodeIds
       IN IF Len(episodeIds) = 0
            THEN /\ faults < budget.faults
                 /\ StageCatch(j)
                 /\ faults' = faults + 1
            ELSE /\ jobs' = CompleteJob(
                              AddEpisodesJob(jobs, "transcribe", j.digestId, 0, episodeIds), j)
                 /\ UNCHANGED <<digests, faults>>
  /\ UNCHANGED <<clipRows, feeds, retryNonce, cancels, cancelledInFlight, transcripts, noTranscripts, rejects, lastRejected, selVars, scoreVars, auxVars, budget>>

\* transcribe worker: an episode counts as transcribed when its transcript is
\* already COMPLETED or transcribeEpisode succeeds now (ok); a failing
\* episode is skipped; with no episode transcribed the handler throws
TranscribeFinish(j) ==
  /\ j \in jobs /\ j.queue = "transcribe" /\ j.state = "active"
  /\ LET pending == {j.episodeIds[i] : i \in 1..Len(j.episodeIds)} \ transcripts
     IN \E ok \in SUBSET pending :
          LET transcribedEpisodeIds ==
                SelectSeq(j.episodeIds, LAMBDA e : e \in transcripts \cup ok)
          IN /\ ok # pending => faults < budget.faults
             /\ faults' = IF ok # pending THEN faults + 1 ELSE faults
             /\ transcripts' = transcripts \cup ok
             /\ IF Len(transcribedEpisodeIds) = 0
                  THEN /\ StageCatch(j)
                       /\ noTranscripts' = [noTranscripts EXCEPT ![j.digestId] = TRUE]
                  ELSE /\ jobs' = CompleteJob(
                                    AddEpisodesJob(jobs, "analyze", j.digestId, 0,
                                                   transcribedEpisodeIds), j)
                       /\ UNCHANGED <<digests, noTranscripts>>
  /\ UNCHANGED <<clipRows, feeds, retryNonce, cancels, cancelledInFlight, rejects, lastRejected, selVars, scoreVars, auxVars, budget>>

\* analyzeEpisodeTranscript: segments scoring below MIN_SCORE_THRESHOLD are dropped
analyzeEpisodeTranscript(segments) ==
  SelectSeq(segments, LAMBDA seg : seg.score >= MIN_SCORE_THRESHOLD)

\* analyzeTranscripts: the candidates above the threshold go to selectClips;
\* one digestClip.create per selected clip with position i = 0..n-1, appended
\* to the rows the digest already has
analyzeTranscripts(rows, segments, config) ==
  LET allCandidates == analyzeEpisodeTranscript(segments)
      selectedClips == selectClips(allCandidates, config)
  IN rows \o [i \in 1..Len(selectedClips) |-> i - 1]

\* analyze worker: persist the clips, write clipCount, queue narrate; addFails
\* is narrateQueue.add rejecting, which lands in the catch block
AnalyzeFinish(j) ==
  /\ j \in jobs /\ j.queue = "analyze" /\ j.state = "active"
  /\ \E segments \in AnalyzeInputs, addFails \in {FALSE} \cup {faults < budget.faults} :
       LET d == j.digestId
           rows == analyzeTranscripts(clipRows[d], segments, DigestConfigs[digests[d].configId])
           created == Len(rows) - Len(clipRows[d])
       IN /\ clipRows' = [clipRows EXCEPT ![d] = rows]
          /\ IF addFails
               THEN /\ digests' = [digests EXCEPT ![d].clipCount = created,
                                                  ![d].status = "FAILED",
                                                  ![d].error = StageError["analyze"]]
                    /\ jobs' = FailJob(jobs, j)
                    /\ faults' = faults + 1
               ELSE /\ digests' = [digests EXCEPT ![d].clipCount = created]
                    /\ faults' = faults
                    /\ jobs' = CompleteJob(AddJob(jobs, "narrate", d, 0, created), j)
  /\ UNCHANGED <<feeds, retryNonce, cancels, cancelledInFlight, transcripts, noTranscripts, rejects, lastRejected, selVars, scoreVars, auxVars, budget>>

\* narrate worker: N + 2 narration audios for the N DigestClip rows of the digest
NarrateFinish(j) ==
  /\ j \in jobs /\ j.queue = "narrate" /\ j.state = "active"
  /\ jobs' = CompleteJob(AddJob(jobs, "assemble", j.digestId, 0,
                                Len(clipRows[j.digestId]) + 2), j)
  /\ UNCHANGED <<digests, clipRows, feeds, retryNonce, faults, cancels, cancelledInFlight, transcripts, noTranscripts, rejects, lastRejected, selVars, scoreVars, auxVars, budget>>

\* assemble worker: audioUrl, totalDuration and chapters are written, deliver is queued
AssembleFinish(j) ==
  /\ j \in jobs /\ j.queue = "assemble" /\ j.state = "active"
  /\ digests' = [digests EXCEPT ![j.digestId].audioUrl = TRUE]
  /\ jobs' = CompleteJob(AddJob(jobs, "deliver", j.digestId, 0, 0), j)
  /\ UNCHANGED <<clipRows, feeds, retryNonce, faults, cancels, cancelledInFlight, transcripts, noTranscripts, rejects, lastRejected, selVars, scoreVars, auxVars, budget>>

RECURSIVE DescendingIds(_, _)
DescendingIds(ids, n) ==
  IF n = 0 THEN <<>>
  ELSE (IF n \in ids THEN <<n>> ELSE <<>>) \o DescendingIds(ids, n - 1)

\* generatePrivateRssFeed: the items of the document put at feeds/{userId}/feed.xml,
\* the user's COMPLETED digests with an audioUrl, createdAt descending
generatePrivateRssFeed(ds, userId) ==
  DescendingIds({x \in 1..Len(ds) :
                   /\ ds[x].userId = userId
                   /\ ds[x].status = "COMPLETED"
                   /\ ds[x].audioUrl}, Len(ds))

\* deliver worker, deliverDigest: dispatch on deliveryMethod, then status COMPLETED
DeliverFinish(j) ==
  /\ j \in jobs /\ j.queue = "deliver" /\ j.state = "active"
  /\ LET d == j.digestId
         u == digests[d].userId
     IN /\ feeds' = IF DigestConfigs[digests[d].configId].deliveryMethod = "PRIVATE_RSS"
                      THEN [feeds EXCEPT ![u] = [uploaded |-> TRUE,
                                                 items |-> generatePrivateRssFeed(digests, u)]]
                      ELSE feeds
        /\ digests' = [digests EXCEPT ![d].status = "COMPLETED"]
  /\ jobs' = CompleteJob(jobs, j)
  /\ UNCHANGED <<clipRows, retryNonce, faults, cancels, cancelledInFlight, transcripts, noTranscripts, rejects, lastRejected, selVars, scoreVars, auxVars, budget>>

\* ─── Specification of the pipeline ───────────────────────────────────────

\* no segment is being scored
ScoreIdle ==
  /\ scorePc = "idle"
  /\ scoreRaw = [i \in 1..5 |-> [isNaN |-> FALSE, halves |-> 0]]
  /\ scoreOut = [dimensions |-> <<0, 0, 0, 0, 0>>, score |-> [n |-> 0, err |-> 0],
                 kept |-> FALSE]

OrchIdle ==
  lastCall = [op |-> "none", now |-> [utcDay |-> 0, utcHours |-> 0],
              outcome |-> [c \in {"c1", "c2", "c3", "c4"} |-> "ok"], calls |-> <<>>, userId |-> "", configId |-> "",
              threw |-> FALSE, before |-> <<>>, jobsBefore |-> {}]

NarrIdle ==
  /\ narrIn = [clips |-> 0, pieces |-> <<>>]
  /\ narrOut = [pc |-> "idle", threw |-> FALSE, scripts |-> <<>>]

\* the result record of a try block that has not run
NoRun ==
  [threw |-> FALSE, at |-> [step |-> "none", index |-> 0], files |-> {}, segments |-> <<>>,
   chapters |-> <<>>, cumulativeTime |-> 0, totalDuration |-> 0, uploaded |-> FALSE,
   ret |-> [s3Key |-> FALSE, totalDuration |-> 0, chapters |-> <<>>]]

AsmIdle ==
  /\ asmIn = [clips |-> {}, narrationAudios |-> <<>>, transitionStyle |-> "SOFT_FADE"]
  /\ asmPc = "idle"
  /\ tempDir = [exists |-> FALSE, files |-> {}]
  /\ asmRun = NoRun
  /\ digestAudio = FALSE
  /\ asmStored = [written |-> FALSE, totalDuration |-> 0, chapters |-> <<>>]

\* no transcribe job is queued or being processed
TxIdle ==
  /\ episodeRows = [e \in 1..MaxTxEpisodes |-> "PENDING"]
  /\ transcriptTable = [e \in 1..MaxTxEpisodes |-> [status |-> "none", fullText |-> "", error |-> FALSE]]
  /\ txQueue = <<>>
  /\ txWorkers = [w \in 1..NumWorkers |->
                    [pc |-> "idle", episodeIds |-> <<>>, i |-> 0, transcribedEpisodeIds |-> <<>>]]
  /\ txLast = [op |-> "none", worker |-> 0, episodeId |-> 0]
  /\ deepgramKeySet = TRUE

\* parseDuration is not being called
DurIdle ==
  /\ durationStr = <<>>
  /\ durOut = [pc |-> "idle", isNull |-> TRUE, value |-> 0]

\* crawlSubscribedFeeds is not being called
CrawlIdle ==
  /\ crawlIn = [subscriptions |-> <<>>, feeds |-> <<>>, lastCrawledAt |-> <<>>]
  /\ crawlOut = [pc |-> "idle", threw |-> FALSE, allNewEpisodeIds |-> <<>>,
                 lastCrawledAt |-> <<>>, upserted |-> {}]

\* the ordering step is not running
OrderIdle ==
  /\ orderIn = [selected |-> <<>>, structure |-> "BY_SCORE"]
  /\ orderOut = [pc |-> "idle", selectedClips |-> <<>>, rows |-> <<>>]

SvcIdle == TxIdle /\ DurIdle /\ CrawlIdle /\ OrderIdle

AuxIdle == OrchIdle /\ NarrIdle /\ AsmIdle /\ SvcIdle

PipeInit ==
  /\ digests = <<>>
  /\ clipRows = [d \in 1..MaxDigests |-> <<>>]
  /\ jobs = {}
  /\ feeds = [u \in Users |-> [uploaded |-> FALSE, items |-> <<>>]]
  /\ retryNonce = [d \in 1..MaxDigests |-> 0]
  /\ faults = 0
  /\ cancels = 0
  /\ cancelledInFlight = [d \in 1..MaxDigests |-> 0]
  /\ transcripts = {}
  /\ noTranscripts = [d \in 1..MaxDigests |-> FALSE]
  /\ rejects = 0
  /\ lastRejected = [op |-> "none", d |-> 0]

Init ==
  /\ PipeInit
  /\ ScoreIdle
  /\ AuxIdle
  /\ budget \in Scenarios
  /\ selPc = "idle"
  /\ selCandidates = <<>>
  /\ selConfig = [targetLengthMinutes |-> 30, clipLengthPref |-> "MEDIUM",
                  breadthDepth |-> 50, structure |-> "BY_SCORE"]
  /\ selResult = <<>>

Next ==
  \/ \E u \in Users, i \in 1..Len(ConfigIds) : Trigger(u, ConfigIds[i])
  \/ CronTick
  \/ \E d \in 1..MaxDigests : retryFailedDigest(d)
  \/ \E d \in 1..MaxDigests : cancelDigest(d)
  \/ \E j \in jobs : StageStart(j)
  \/ \E j \in jobs : StageThrow(j)
  \/ \E j \in jobs : CrawlFinish(j)
  \/ \E j \in jobs : TranscribeFinish(j)
  \/ \E j \in jobs : AnalyzeFinish(j)
  \/ \E j \in jobs : NarrateFinish(j)
  \/ \E j \in jobs : AssembleFinish(j)
  \/ \E j \in jobs : DeliverFinish(j)

Spec == Init /\ [][Next]_vars

\* ─── Specification of selectClips on bounded inputs ──────────────────────

\* podcast title (as its rank in localeCompare order) of each episode
PodcastTitleOf == <<2, 1>>

CandidateUniverse ==
  {[episodeId |-> e, podcastTitle |-> PodcastTitleOf[e], startTime |-> s,
    endTime |-> s + len, score |-> sc] :
     e \in {1, 2}, s \in {0, 400}, len \in {300, 800}, sc \in {50, 70}}

CandidateLists == UNION {[1..n -> CandidateUniverse] : n \in 0..MaxCands}

SelectionConfigs ==
  [targetLengthMinutes : {30}, clipLengthPref : {"MEDIUM", "LONG", "MIXED"},
   breadthDepth : {0, 100}, structure : {"BY_SCORE", "CHRONOLOGICAL"}]

SelectInit ==
  /\ PipeInit
  /\ ScoreIdle
  /\ AuxIdle
  /\ budget = [digests |-> 0, faults |-> 0, cancels |-> 0, retries |-> 0, rejects |-> 0]
  /\ selPc = "ready"
  /\ selCandidates \in CandidateLists
  /\ selConfig \in SelectionConfigs
  /\ selResult = <<>>

SelectClipsCall ==
  /\ selPc = "ready"
  /\ selResult' = selectClips(selCandidates, selConfig)
  /\ selPc' = "done"
  /\ UNCHANGED <<pipeVars, scoreVars, auxVars, selCandidates, selConfig>>

SelectNext == SelectClipsCall

SelectSpec == SelectInit /\ [][SelectNext]_vars

\* ─── Specification of the orchestrator's entry points ────────────────────

\* DigestConfig rows of the hourly check, in findMany order: c1 and c2 as
\* above, c3 of user u2 due on Tuesday 17:30, c4 of user u1 due on Monday 08:45
CronConfigIds == <<"c1", "c2", "c3", "c4">>

CronConfigs ==
  [c \in {"c1", "c2", "c3", "c4"} |->
     CASE c = "c3" -> [DigestConfigs.c1 EXCEPT !.userId = "u2", !.deliveryDay = "Tuesday",
                                               !.deliveryTime = <<17, 30>>]
       [] c = "c4" -> [DigestConfigs.c1 EXCEPT !.deliveryDay = "MONDAY",
                                               !.deliveryTime = <<8, 45>>]
       [] OTHER -> DigestConfigs[c]]

\* Digest rows present before the call
CronRows ==
  {[NewDigest(CronConfigs[c].userId, c) EXCEPT !.status = st] :
     c \in {"c1", "c2", "c3", "c4"}, st \in {"ANALYZING", "COMPLETED", "FAILED"}}

CronTables == UNION {[1..n -> CronRows] : n \in 0..MaxCronRows}

OrchInit ==
  /\ digests \in CronTables
  /\ clipRows = [d \in 1..MaxDigests |-> <<>>]
  /\ jobs = {}
  /\ feeds = [u \in Users |-> [uploaded |-> FALSE, items |-> <<>>]]
  /\ retryNonce = [d \in 1..MaxDigests |-> 0]
  /\ faults = 0
  /\ cancels = 0
  /\ cancelledInFlight = [d \in 1..MaxDigests |-> 0]
  /\ transcripts = {}
  /\ noTranscripts = [d \in 1..MaxDigests |-> FALSE]
  /\ rejects = 0
  /\ lastRejected = [op |-> "none", d |-> 0]
  /\ ScoreIdle
  /\ AuxIdle
  /\ budget = [digests |-> MaxCronRows + Len(CronConfigIds), faults |-> 0, cancels |-> 0,
               retries |-> 0, rejects |-> 0]
  /\ selPc = "idle"
  /\ selCandidates = <<>>
  /\ selConfig = [targetLengthMinutes |-> 30, clipLengthPref |-> "MEDIUM",
                  breadthDepth |-> 50, structure |-> "BY_SCORE"]
  /\ selResult = <<>>

\* one call triggerDigestPipeline(userId, configId), observed
TriggerCall(userId, configId) ==
  /\ lastCall.op = "none"
  /\ LET threw == CronConfigs[configId].userId # userId
         r == IF threw THEN [digests |-> digests, jobs |-> jobs]
              ELSE triggerDigestPipeline(digests, jobs, userId, configId)
     IN /\ digests' = r.digests
        /\ jobs' = r.jobs
        /\ lastCall' = [lastCall EXCEPT !.op = "trigger", !.userId = userId,
                                        !.configId = configId, !.threw = threw,
                                        !.before = digests, !.jobsBefore = jobs]
  /\ UNCHANGED <<clipRows, feeds, retryNonce, faults, cancels, cancelledInFlight, transcripts, noTranscripts, rejects, lastRejected, selVars, scoreVars, narrVars, asmVars, svcVars, budget>>

\* one run of the hourly check, observed
CronTickCall ==
  /\ lastCall.op = "none"
  /\ \E now \in Nows, outcome \in [{"c1", "c2", "c3", "c4"} -> TriggerOutcomes] :
       LET r == CronLoop(1, CronConfigIds, CronConfigs, now, outcome, digests, jobs, <<>>)
       IN /\ digests' = r.digests
          /\ jobs' = r.jobs
          /\ lastCall' = [lastCall EXCEPT !.op = "cron", !.now = now, !.outcome = outcome,
                                          !.calls = r.calls, !.before = digests,
                                          !.jobsBefore = jobs]
  /\ UNCHANGED <<clipRows, feeds, retryNonce, faults, cancels, cancelledInFlight, transcripts, noTranscripts, rejects, lastRejected, selVars, scoreVars, narrVars, asmVars, svcVars, budget>>

OrchNext ==
  \/ \E u \in Users, i \in 1..Len(CronConfigIds) : TriggerCall(u, CronConfigIds[i])
  \/ CronTickCall

OrchestratorSpec == OrchInit /\ [][OrchNext]_vars

\* ─── Narration: script generation ────────────────────────────────────────

\* The text between two delimiters of the LLM response: nothing, white space
\* only, a script, a script with white space around it
RawPieces == {"", " ", "A", " B "}

\* String.prototype.trim
trim(str) ==
  CASE str = " " -> ""
    [] str = " B " -> "B"
    [] OTHER -> str

\* responseText.split("---SCRIPT---").map(trim).filter(length > 0)
splitScripts(pieces) ==
  SelectSeq([i \in 1..Len(pieces) |-> trim(pieces[i])], LAMBDA t : t # "")

\* generateNarrationScripts, from the response of the LLM on: the digest has
\* `clips` clips, the response is `pieces` joined by the delimiter
generateNarrationScripts(clips, pieces) ==
  LET scriptTexts == splitScripts(pieces)
      expectedCount == clips + 2
  IN IF Len(scriptTexts) < expectedCount
       THEN [threw |-> TRUE, scripts |-> <<>>]
       ELSE [threw |-> FALSE,
             scripts |->
               <<[type |-> "intro", text |-> scriptTexts[1], position |-> 0]>>
               \o [i \in 1..clips |->
                     [type |-> "transition", text |-> scriptTexts[i + 1], position |-> i]]
               \o <<[type |-> "outro", text |-> scriptTexts[Len(scriptTexts)],
                     position |-> clips + 1]>>]

NarrInit ==
  /\ PipeInit
  /\ ScoreIdle
  /\ OrchIdle
  /\ AsmIdle
  /\ SvcIdle
  /\ budget = [digests |-> 0, faults |-> 0, cancels |-> 0, retries |-> 0, rejects |-> 0]
  /\ selPc = "idle"
  /\ selCandidates = <<>>
  /\ selConfig = [targetLengthMinutes |-> 30, clipLengthPref |-> "MEDIUM",
                  breadthDepth |-> 50, structure |-> "BY_SCORE"]
  /\ selResult = <<>>
  /\ narrIn \in [clips : 0..MaxNarrClips,
                  pieces : UNION {[1..n -> RawPieces] : n \in 0..MaxPieces}]
  /\ narrOut = [pc |-> "ready", threw |-> FALSE, scripts |-> <<>>]

GenerateScripts ==
  /\ narrOut.pc = "ready"
  /\ LET r == generateNarrationScripts(narrIn.clips, narrIn.pieces)
     IN narrOut' = [pc |-> "done", threw |-> r.threw, scripts |-> r.scripts]
  /\ UNCHANGED <<pipeVars, selVars, scoreVars, orchVars, asmVars, svcVars, narrIn>>

NarrNext == GenerateScripts

NarrationSpec == NarrInit /\ [][NarrNext]_vars

\* ─── Audio assembler ─────────────────────────────────────────────────────
\* A DigestClip row is [position, episodeId, duration]: duration is what
\* probeDuration returns for the extracted clip file.  A narration audio is
\* [type, position, duration]: duration is what probeDuration returns for the
\* downloaded narration file.  A file of the scratch directory is named by a
\* pair: <<"episode", episodeId>>, <<"narration", position>>, <<"clip", i>>,
\* <<"raw-digest", 0>>, <<"normalized-digest", 0>>.

getTransitionDurationSilence(transitionStyle) == 0

\* getTransitionDuration: 0 signals the silence-gap path
getTransitionDuration(transitionStyle) ==
  CASE transitionStyle = "SILENCE" -> 0
    [] OTHER -> 6

\* buildChapterTitle(podcastTitle, episodeTitle): never empty; the title of an
\* episode is modelled by the id of the episode
buildChapterTitle(clip) == clip.episodeId

cleanupTempFilesKeep(dir) == dir

\* cleanupTempFiles: fs.rm(dir, { recursive: true, force: true })
cleanupTempFiles(dir) == [exists |-> FALSE, files |-> {}]

\* clips: { orderBy: { position: "asc" } }
RECURSIVE orderByPosition(_)
orderByPosition(rows) ==
  IF rows = {} THEN <<>>
  ELSE LET first == CHOOSE r \in rows : \A q \in rows : r.position <= q.position
       IN <<first>> \o orderByPosition(rows \ {first})

\* [...narrationAudios].sort((a, b) => a.position - b.position), a stable sort
RECURSIVE sortByPosition(_)
sortByPosition(audios) ==
  IF Len(audios) <= 1 THEN audios
  ELSE LET rest == sortByPosition(Tail(audios))
           h == Head(audios)
       IN SelectSeq(rest, LAMBDA a : a.position < h.position) \o <<h>>
          \o SelectSeq(rest, LAMBDA a : a.position >= h.position)

narrationSegment(narration) ==
  [type |-> "narration", filePath |-> <<"narration", narration.position>>,
   duration |-> narration.duration, title |-> 0]

clipSegment(clip, i) ==
  [type |-> "clip", filePath |-> <<"clip", i - 1>>, duration |-> clip.duration,
   title |-> buildChapterTitle(clip)]

\* Step 4, the loop over the clips: transitionNarrations[i], when there is
\* one, then the clip
RECURSIVE transitionClipPairs(_, _, _)
transitionClipPairs(clips, transitionNarrations, i) ==
  IF i > Len(clips) THEN <<>>
  ELSE (IF i <= Len(transitionNarrations)
          THEN <<narrationSegment(transitionNarrations[i])>> ELSE <<>>)
       \o <<clipSegment(clips[i], i)>>
       \o transitionClipPairs(clips, transitionNarrations, i + 1)

buildSegmentsOutroFirst(clips, intro, transitionNarrations, outro) ==
  <<narrationSegment(outro)>>
  \o transitionClipPairs(clips, transitionNarrations, 1)
  \o <<narrationSegment(intro)>>

\* Step 4: intro, the transition-clip pairs, outro
buildSegments(clips, intro, transitionNarrations, outro) ==
  <<narrationSegment(intro)>>
  \o transitionClipPairs(clips, transitionNarrations, 1)
  \o <<narrationSegment(outro)>>

\* Step 7, the loop over the segments from segment i on
RECURSIVE buildChapters(_, _, _, _)
buildChapters(segments, i, cumulativeTime, gapDuration) ==
  IF i > Len(segments) THEN [chapters |-> <<>>, cumulativeTime |-> cumulativeTime]
  ELSE LET segment == segments[i]
           own == IF segment.type = "clip" /\ segment.title # 0
                    THEN <<[title |-> segment.title, startTime |-> cumulativeTime,
                            endTime |-> cumulativeTime + segment.duration]>>
                    ELSE <<>>
           next == cumulativeTime + segment.duration
                   + (IF i < Len(segments) THEN gapDuration ELSE 0)
           rest == buildChapters(segments, i + 1, next, gapDuration)
       IN [chapters |-> own \o rest.chapters, cumulativeTime |-> rest.cumulativeTime]

\* the last chapter's endTime is lowered to totalDuration when it exceeds it
clampLastChapter(chapters, totalDuration) ==
  IF Len(chapters) > 0 /\ chapters[Len(chapters)].endTime > totalDuration
    THEN [chapters EXCEPT ![Len(chapters)].endTime = totalDuration]
    ELSE chapters

\* Math.round of a non-negative time in tenths of a second, in whole seconds
MathRound(tenths) == (tenths + 5) \div 10

\* The places of the try block where a call can throw: the database load, the
\* download of the source audio of clip k (the first clip of its episode), the
\* download of narration k, the extraction of clip k, a probe of a segment,
\* the concatenation, the normalisation, the probe of the final file, the upload
FailurePoints(in) ==
  LET clips == orderByPosition(in.clips)
  IN {[step |-> st, index |-> 0] :
        st \in {"none", "load", "probeDuration", "concatenate", "normalizeLoudness",
                "probeFinal", "upload"}}
     \cup {[step |-> "downloadEpisode", index |-> k] :
             k \in {i \in 1..Len(clips) :
                      \A h \in 1..(i - 1) : clips[h].episodeId # clips[i].episodeId}}
     \cup {[step |-> "downloadNarration", index |-> k] : k \in 1..Len(in.narrationAudios)}
     \cup {[step |-> "extractClip", index |-> k] : k \in 1..Len(clips)}

fetchSourcesSkipFailed(in, fail) ==
  [threw |-> FALSE, files |-> {}]

\* Steps 1 and 2: the downloads of the source audio of each episode and of
\* each narration audio, in order; the first download that fails throws
fetchSources(in, fail) ==
  LET clips == orderByPosition(in.clips)
      sortedNarrations == sortByPosition(in.narrationAudios)
      episodeFiles(k) == {<<"episode", clips[i].episodeId>> : i \in 1..k}
      narrationFiles(k) == {<<"narration", sortedNarrations[i].position>> : i \in 1..k}
  IN CASE fail.step = "downloadEpisode" ->
            [threw |-> TRUE, files |-> episodeFiles(fail.index - 1)]
       [] fail.step = "downloadNarration" ->
            [threw |-> TRUE,
             files |-> episodeFiles(Len(clips)) \cup narrationFiles(fail.index - 1)]
       [] OTHER ->
            [threw |-> FALSE,
             files |-> episodeFiles(Len(clips)) \cup narrationFiles(Len(sortedNarrations))]

\* What the final file's probed duration can differ by from the computed
\* total, in tenths of a second
ProbeDrifts == {0 - 22, 0 - 3, 0, 3}

\* The try block of assembleDigest; fail is the place where a call throws
\* ("none": no call throws), drift the difference between the probed duration
\* of the final file and the computed total
assembleDigest(in, fail, drift) ==
  LET clips == orderByPosition(in.clips)
      transitionDuration == getTransitionDuration(in.transitionStyle)
      sortedNarrations == sortByPosition(in.narrationAudios)
      intros == SelectSeq(sortedNarrations, LAMBDA n : n.type = "intro")
      outros == SelectSeq(sortedNarrations, LAMBDA n : n.type = "outro")
      transitionNarrations ==
        sortByPosition(SelectSeq(sortedNarrations, LAMBDA n : n.type = "transition"))
      fetched == fetchSources(in, fail)
      clipFiles(k) == {<<"clip", i - 1>> : i \in 1..k}
      downloaded == {<<"episode", clips[i].episodeId>> : i \in 1..Len(clips)}
                    \cup {<<"narration", sortedNarrations[i].position>> :
                            i \in 1..Len(sortedNarrations)}
      extracted == downloaded \cup clipFiles(Len(clips))
      segments == buildSegments(clips, intros[1], transitionNarrations, outros[1])
      gapDuration == IF transitionDuration > 0 THEN transitionDuration ELSE 5
      built == buildChapters(segments, 1, 0, gapDuration)
      probed == built.cumulativeTime + drift
      totalDuration == IF probed < 0 THEN 0 ELSE probed
      chapters == clampLastChapter(built.chapters, totalDuration)
      rendered == extracted \cup {<<"raw-digest", 0>>, <<"normalized-digest", 0>>}
      threw(files) == [NoRun EXCEPT !.threw = TRUE, !.at = fail, !.files = files]
  IN CASE fail.step = "load" -> threw({})
       [] Len(intros) = 0 \/ Len(outros) = 0 ->
            [NoRun EXCEPT !.threw = TRUE, !.at = [step |-> "missingNarration", index |-> 0]]
       [] fetched.threw -> threw(fetched.files)
       [] fail.step = "extractClip" -> threw(downloaded \cup clipFiles(fail.index - 1))
       [] fail.step = "probeDuration" -> threw(extracted)
       [] fail.step = "concatenate" ->
            [threw(extracted) EXCEPT !.segments = segments]
       [] fail.step = "normalizeLoudness" ->
            [threw(extracted \cup {<<"raw-digest", 0>>}) EXCEPT !.segments = segments]
       [] fail.step = "probeFinal" ->
            [threw(rendered) EXCEPT !.segments = segments,
                                    !.cumulativeTime = built.cumulativeTime]
       [] fail.step = "upload" ->
            [threw(rendered) EXCEPT !.segments = segments, !.chapters = chapters,
                                    !.cumulativeTime = built.cumulativeTime,
                                    !.totalDuration = totalDuration]
       [] OTHER ->
            [threw |-> FALSE, at |-> fail, files |-> rendered, segments |-> segments,
             chapters |-> chapters, cumulativeTime |-> built.cumulativeTime,
             totalDuration |-> totalDuration, uploaded |-> TRUE,
             ret |-> [s3Key |-> TRUE, totalDuration |-> MathRound(totalDuration),
                      chapters |-> chapters]]

\* ─── Specification of one run of the assemble worker ─────────────────────

\* probed durations of narration files and of extracted clips, in tenths of a second
IntroDurations == {200}
TransitionDurations == {280, 300}
OutroDurations == {10, 180}
ClipDurations == {1800, 3000}

\* what generateAndSynthesizeNarration hands on for n clips: intro at position
\* 0, transitions at 1..n, outro at n + 1
NarrationAudios(n) ==
  {[i \in 1..(n + 2) |->
      [type |-> IF i = 1 THEN "intro" ELSE IF i = n + 2 THEN "outro" ELSE "transition",
       position |-> i - 1,
       duration |-> IF i = 1 THEN intro ELSE IF i = n + 2 THEN outro ELSE transition[i - 1]]] :
     intro \in IntroDurations, outro \in OutroDurations,
     transition \in [1..n -> TransitionDurations]}

\* the DigestClip rows of an analyze run that selected n clips
ClipRowSets(n) ==
  {{[position |-> i - 1, episodeId |-> episode[i], duration |-> duration[i]] : i \in 1..n} :
     episode \in [1..n -> {1, 2}], duration \in [1..n -> ClipDurations]}

\* softFade, three clips of 300, 240 and 180 s, narrations of 20, 30, 28, 32, 18 s
ChapterExample ==
  [clips |-> {[position |-> 0, episodeId |-> 1, duration |-> 3000],
              [position |-> 1, episodeId |-> 2, duration |-> 2400],
              [position |-> 2, episodeId |-> 1, duration |-> 1800]},
   narrationAudios |-> <<[type |-> "intro", position |-> 0, duration |-> 200],
                         [type |-> "transition", position |-> 1, duration |-> 300],
                         [type |-> "transition", position |-> 2, duration |-> 280],
                         [type |-> "transition", position |-> 3, duration |-> 320],
                         [type |-> "outro", position |-> 4, duration |-> 180]>>,
   transitionStyle |-> "SOFT_FADE"]

AssemblerInputs ==
  {ChapterExample} \cup
  UNION {[clips : ClipRowSets(n), narrationAudios : NarrationAudios(n),
          transitionStyle : {"SILENCE", "SOFT_FADE"}] : n \in 0..MaxAsmClips}

\* the assemble job of digest 1 has been taken by a worker, the status is ASSEMBLING
AsmInit ==
  /\ asmIn \in AssemblerInputs
  /\ digests = <<[NewDigest("u1", "c1") EXCEPT !.status = "ASSEMBLING",
                                               !.clipCount = Cardinality(asmIn.clips)]>>
  /\ clipRows = [d \in 1..MaxDigests |->
                   IF d = 1 THEN [i \in 1..Cardinality(asmIn.clips) |-> i - 1] ELSE <<>>]
  /\ jobs = {[queue |-> "assemble", digestId |-> 1, nonce |-> 0, state |-> "active",
              attemptsMade |-> 0, payload |-> Len(asmIn.narrationAudios),
              episodeIds |-> <<>>, userId |-> "", configId |-> ""]}
  /\ feeds = [u \in Users |-> [uploaded |-> FALSE, items |-> <<>>]]
  /\ retryNonce = [d \in 1..MaxDigests |-> 0]
  /\ faults = 0
  /\ cancels = 0
  /\ cancelledInFlight = [d \in 1..MaxDigests |-> 0]
  /\ transcripts = {}
  /\ noTranscripts = [d \in 1..MaxDigests |-> FALSE]
  /\ rejects = 0
  /\ lastRejected = [op |-> "none", d |-> 0]
  /\ ScoreIdle
  /\ OrchIdle
  /\ NarrIdle
  /\ SvcIdle
  /\ budget = [digests |-> 1, faults |-> 0, cancels |-> 0, retries |-> 0, rejects |-> 0]
  /\ selPc = "idle"
  /\ selCandidates = <<>>
  /\ selConfig = [targetLengthMinutes |-> 30, clipLengthPref |-> "MEDIUM",
                  breadthDepth |-> 50, structure |-> "BY_SCORE"]
  /\ selResult = <<>>
  /\ asmPc = "ready"
  /\ tempDir = [exists |-> FALSE, files |-> {}]
  /\ asmRun = NoRun
  /\ digestAudio = FALSE
  /\ asmStored = [written |-> FALSE, totalDuration |-> 0, chapters |-> <<>>]

\* fs.mkdir(tempDir, { recursive: true }), before the try block
AssembleBegin ==
  /\ asmPc = "ready"
  /\ \E ok \in BOOLEAN :
       IF ok
         THEN /\ tempDir' = [exists |-> TRUE, files |-> {}]
              /\ asmPc' = "try"
              /\ UNCHANGED asmRun
         ELSE /\ asmRun' = [NoRun EXCEPT !.threw = TRUE,
                                         !.at = [step |-> "mkdir", index |-> 0]]
              /\ asmPc' = "exit"
              /\ UNCHANGED tempDir
  /\ UNCHANGED <<pipeVars, selVars, scoreVars, orchVars, narrVars, svcVars, asmIn, digestAudio, asmStored>>

\* the try block, up to its return or to the call that throws
AssembleTry ==
  /\ asmPc = "try"
  /\ \E fail \in FailurePoints(asmIn) :
       \E drift \in IF fail.step = "none" THEN ProbeDrifts ELSE {0} :
         LET r == assembleDigest(asmIn, fail, drift)
         IN /\ asmRun' = r
            /\ tempDir' = [exists |-> TRUE, files |-> r.files]
            /\ digestAudio' = (digestAudio \/ r.uploaded)
  /\ asmPc' = "finally"
  /\ UNCHANGED <<pipeVars, selVars, scoreVars, orchVars, narrVars, svcVars, asmIn, asmStored>>

\* the finally block
AssembleFinally ==
  /\ asmPc = "finally"
  /\ tempDir' = cleanupTempFiles(tempDir)
  /\ asmPc' = "exit"
  /\ UNCHANGED <<pipeVars, selVars, scoreVars, orchVars, narrVars, svcVars, asmIn, asmRun, digestAudio, asmStored>>

\* the assemble worker after assembleDigest: the digest update and the deliver
\* job, or the catch block
AssembleWorkerEnd ==
  /\ asmPc = "exit"
  /\ \E j \in jobs :
       /\ j.queue = "assemble" /\ j.state = "active"
       /\ IF asmRun.threw
            THEN /\ StageCatch(j)
                 /\ UNCHANGED asmStored
            ELSE /\ digests' = [digests EXCEPT ![j.digestId].audioUrl = asmRun.ret.s3Key]
                 /\ asmStored' = [written |-> TRUE,
                                  totalDuration |-> asmRun.ret.totalDuration,
                                  chapters |-> asmRun.ret.chapters]
                 /\ jobs' = CompleteJob(AddJob(jobs, "deliver", j.digestId, 0, 0), j)
  /\ asmPc' = "done"
  /\ UNCHANGED <<clipRows, feeds, retryNonce, faults, cancels, cancelledInFlight, transcripts, noTranscripts, rejects, lastRejected, selVars, scoreVars, orchVars, narrVars, svcVars, asmIn, tempDir, asmRun, digestAudio, budget>>

AsmNext ==
  \/ AssembleBegin
  \/ AssembleTry
  \/ AssembleFinally
  \/ AssembleWorkerEnd

AssemblerSpec == AsmInit /\ [][AsmNext]_vars

\* ─── Specification of the scoring of one parsed segment ──────────────────

\* values the LLM can put in a dimension: numbers in halves (-1.5, 1, 36,
\* 39.5, 40, 81, 91, 125) or something Number() turns into NaN
RawValues ==
  {[isNaN |-> TRUE, halves |-> 0]} \cup
  {[isNaN |-> FALSE, halves |-> h] : h \in {0 - 3, 2, 72, 79, 80, 162, 182, 250}}

ScoreInit ==
  /\ PipeInit
  /\ AuxIdle
  /\ budget = [digests |-> 0, faults |-> 0, cancels |-> 0, retries |-> 0, rejects |-> 0]
  /\ selPc = "idle"
  /\ selCandidates = <<>>
  /\ selConfig = [targetLengthMinutes |-> 30, clipLengthPref |-> "MEDIUM",
                  breadthDepth |-> 50, structure |-> "BY_SCORE"]
  /\ selResult = <<>>
  /\ scorePc = "ready"
  /\ scoreRaw \in [1..5 -> RawValues]
  /\ scoreOut = [dimensions |-> <<0, 0, 0, 0, 0>>, score |-> [n |-> 0, err |-> 0],
                 kept |-> FALSE]

\* the body of the loop over the parsed segments: clamp, weigh, threshold
ScoreSegment ==
  /\ scorePc = "ready"
  /\ LET dimensions == [i \in 1..5 |-> clampScore(scoreRaw[i])]
         score == computeWeightedScore(dimensions)
     IN scoreOut' = [dimensions |-> dimensions, score |-> score,
                     kept |-> ~DoubleLess(score, MIN_SCORE_THRESHOLD)]
  /\ scorePc' = "done"
  /\ UNCHANGED <<pipeVars, selVars, auxVars, scoreRaw>>

ScoreNext == ScoreSegment

ScoreSpec == ScoreInit /\ [][ScoreNext]_vars

\* ─── Specification of selectClips on durations around the length limits ──

\* clip durations on both sides of 0.7 * effectiveMin and 1.3 * effectiveMax
\* for SHORT with breadthDepth 0 (84, 265.2) and LONG with breadthDepth 100
\* (424.2, 1170)
LengthDurations == {83, 84, 265, 266, 423, 424, 425, 1170, 1171}

LengthCandidates ==
  {[episodeId |-> e, podcastTitle |-> PodcastTitleOf[e], startTime |-> 0,
    endTime |-> d, score |-> 50] : e \in {1, 2}, d \in LengthDurations}

LengthCandidateLists == UNION {[1..n -> LengthCandidates] : n \in 0..MaxLengthCands}

LengthConfigs ==
  [targetLengthMinutes : {60}, clipLengthPref : {"SHORT", "MEDIUM", "LONG", "MIXED"},
   breadthDepth : {0, 50, 100}, structure : {"BY_SCORE"}]

LengthInit ==
  /\ PipeInit
  /\ ScoreIdle
  /\ AuxIdle
  /\ budget = [digests |-> 0, faults |-> 0, cancels |-> 0, retries |-> 0, rejects |-> 0]
  /\ selPc = "ready"
  /\ selCandidates \in LengthCandidateLists
  /\ selConfig \in LengthConfigs
  /\ selResult = <<>>

LengthSpec == LengthInit /\ [][SelectNext]_vars

\* ─── Specification of selectClips on the tight 30-minute digest ──────────

\* six candidates of six episodes, best score first
TightCandidates ==
  LET cand(e, sc, d) == [episodeId |-> e, podcastTitle |-> e, startTime |-> 0,
                         endTime |-> d, score |-> sc]
  IN <<cand(1, 82, 300), cand(2, 78, 420), cand(3, 77, 260),
       cand(4, 71, 330), cand(5, 70, 390), cand(6, 68, 210)>>

TightConfig ==
  [targetLengthMinutes |-> 30, clipLengthPref |-> "MEDIUM", breadthDepth |-> 50,
   structure |-> "BY_SCORE"]

\* the candidates arrive in any order
TightInit ==
  /\ PipeInit
  /\ ScoreIdle
  /\ AuxIdle
  /\ budget = [digests |-> 0, faults |-> 0, cancels |-> 0, retries |-> 0, rejects |-> 0]
  /\ selPc = "ready"
  /\ \E p \in [1..Len(TightCandidates) -> 1..Len(TightCandidates)] :
       /\ \A i, k \in DOMAIN p : p[i] = p[k] => i = k
       /\ selCandidates = [i \in 1..Len(TightCandidates) |-> TightCandidates[p[i]]]
  /\ selConfig = TightConfig
  /\ selResult = <<>>

TightSpec == TightInit /\ [][SelectNext]_vars


\* ─── Specification of the transcribe worker on shared episodeRows ───────────
\* The transcribe handler and transcribeEpisode, one step per awaited call,
\* run by NumWorkers worker processes on jobs whose episode lists overlap.

\* the episodeIds of a transcribe job: distinct ids, at least one
TxEpisodeLists ==
  UNION {{q \in [1..n -> 1..MaxTxEpisodes] : \A i, k \in 1..n : q[i] = q[k] => i = k} :
           n \in 1..MaxTxEpisodes}

TxJobLists == UNION {[1..n -> TxEpisodeLists] : n \in 1..MaxTxJobs}

TxInit ==
  /\ PipeInit
  /\ ScoreIdle
  /\ OrchIdle /\ NarrIdle /\ AsmIdle /\ DurIdle /\ CrawlIdle /\ OrderIdle
  /\ budget = [digests |-> 0, faults |-> 0, cancels |-> 0, retries |-> 0, rejects |-> 0]
  /\ selPc = "idle"
  /\ selCandidates = <<>>
  /\ selConfig = [targetLengthMinutes |-> 30, clipLengthPref |-> "MEDIUM",
                  breadthDepth |-> 50, structure |-> "BY_SCORE"]
  /\ selResult = <<>>
  /\ episodeRows = [e \in 1..MaxTxEpisodes |-> "PENDING"]
  /\ transcriptTable = [e \in 1..MaxTxEpisodes |-> [status |-> "none", fullText |-> "", error |-> FALSE]]
  /\ txQueue \in TxJobLists
  /\ txWorkers = [w \in 1..NumWorkers |->
                    [pc |-> "idle", episodeIds |-> <<>>, i |-> 0, transcribedEpisodeIds |-> <<>>]]
  /\ txLast = [op |-> "none", worker |-> 0, episodeId |-> 0]
  /\ deepgramKeySet \in BOOLEAN

\* the episode worker w is at
TxEpisodeOf(w) == txWorkers[w].episodeIds[txWorkers[w].i]

\* the end of one round of the for loop: the next episode, or the loop is over
TxAdvance(w, pushed) ==
  LET me == txWorkers[w]
      ids == IF pushed THEN Append(me.transcribedEpisodeIds, me.episodeIds[me.i])
             ELSE me.transcribedEpisodeIds
  IN [txWorkers EXCEPT ![w] =
        IF me.i = Len(me.episodeIds)
          THEN [me EXCEPT !.pc = "end", !.transcribedEpisodeIds = ids]
          ELSE [me EXCEPT !.pc = "find", !.i = me.i + 1, !.transcribedEpisodeIds = ids]]

\* transcribeQueue.process: a worker takes the next job
TranscribeTake(w) ==
  /\ txWorkers[w].pc = "idle"
  /\ Len(txQueue) > 0
  /\ txWorkers' = [txWorkers EXCEPT ![w] =
                     [pc |-> "find", episodeIds |-> Head(txQueue), i |-> 1,
                      transcribedEpisodeIds |-> <<>>]]
  /\ txQueue' = Tail(txQueue)
  /\ txLast' = [op |-> "take", worker |-> w, episodeId |-> 0]
  /\ UNCHANGED <<episodeRows, transcriptTable, deepgramKeySet>>

\* prisma.transcript.findUnique and the test on existing.status; without a
\* completed transcript transcribeEpisode is called, which throws at once
\* when DEEPGRAM_API_KEY is not set
TranscribeFind(w) ==
  /\ txWorkers[w].pc = "find"
  /\ LET e == TxEpisodeOf(w)
     IN IF transcriptTable[e].status = "COMPLETED"
          THEN /\ txWorkers' = TxAdvance(w, TRUE)
               /\ txLast' = [op |-> "skip", worker |-> w, episodeId |-> e]
          ELSE IF ~deepgramKeySet
            THEN /\ txWorkers' = TxAdvance(w, FALSE)
                 /\ txLast' = [op |-> "noKey", worker |-> w, episodeId |-> e]
            ELSE /\ txWorkers' = [txWorkers EXCEPT ![w].pc = "setProcessing"]
                 /\ txLast' = [op |-> "find", worker |-> w, episodeId |-> e]
  /\ UNCHANGED <<episodeRows, transcriptTable, txQueue, deepgramKeySet>>

\* transcribeEpisode: prisma.episode.update({ transcriptStatus: "PROCESSING" })
SetProcessing(w) ==
  /\ txWorkers[w].pc = "setProcessing"
  /\ episodeRows' = [episodeRows EXCEPT ![TxEpisodeOf(w)] = "PROCESSING"]
  /\ txWorkers' = [txWorkers EXCEPT ![w].pc = "fetch"]
  /\ txLast' = [op |-> "episodeProcessing", worker |-> w, episodeId |-> TxEpisodeOf(w)]
  /\ UNCHANGED <<transcriptTable, txQueue, deepgramKeySet>>

\* transcribeEpisode: the call of the Deepgram API; it returns a transcript
\* (ok), or fetch rejects, the response is not ok or the transcript is empty
CallDeepgram(w) ==
  /\ txWorkers[w].pc = "fetch"
  /\ \E ok \in BOOLEAN :
       txWorkers' = [txWorkers EXCEPT ![w].pc = IF ok THEN "upsertCompleted" ELSE "upsertFailed"]
  /\ txLast' = [op |-> "provider", worker |-> w, episodeId |-> TxEpisodeOf(w)]
  /\ UNCHANGED <<episodeRows, transcriptTable, txQueue, deepgramKeySet>>

\* transcribeEpisode: prisma.transcript.upsert with status COMPLETED
UpsertCompleted(w) ==
  /\ txWorkers[w].pc = "upsertCompleted"
  /\ transcriptTable' = [transcriptTable EXCEPT ![TxEpisodeOf(w)] =
                           [status |-> "COMPLETED", fullText |-> "fullText", error |-> FALSE]]
  /\ txWorkers' = [txWorkers EXCEPT ![w].pc = "episodeCompleted"]
  /\ txLast' = [op |-> "transcriptCompleted", worker |-> w, episodeId |-> TxEpisodeOf(w)]
  /\ UNCHANGED <<episodeRows, txQueue, deepgramKeySet>>

\* transcribeEpisode: prisma.episode.update({ transcriptStatus: "COMPLETED" }), return
EpisodeCompleted(w) ==
  /\ txWorkers[w].pc = "episodeCompleted"
  /\ episodeRows' = [episodeRows EXCEPT ![TxEpisodeOf(w)] = "COMPLETED"]
  /\ txWorkers' = TxAdvance(w, TRUE)
  /\ txLast' = [op |-> "episodeCompleted", worker |-> w, episodeId |-> TxEpisodeOf(w)]
  /\ UNCHANGED <<transcriptTable, txQueue, deepgramKeySet>>

\* transcribeEpisode, catch: prisma.transcript.upsert with status FAILED; an
\* existing row keeps its fullText
UpsertFailed(w) ==
  /\ txWorkers[w].pc = "upsertFailed"
  /\ transcriptTable' = [transcriptTable EXCEPT ![TxEpisodeOf(w)] =
                           IF @.status = "none"
                             THEN [status |-> "FAILED", fullText |-> "", error |-> TRUE]
                             ELSE [@ EXCEPT !.status = "FAILED", !.error = TRUE]]
  /\ txWorkers' = [txWorkers EXCEPT ![w].pc = "episodeFailed"]
  /\ txLast' = [op |-> "transcriptFailed", worker |-> w, episodeId |-> TxEpisodeOf(w)]
  /\ UNCHANGED <<episodeRows, txQueue, deepgramKeySet>>

\* transcribeEpisode, catch: prisma.episode.update({ transcriptStatus: "FAILED" }),
\* throw; the worker's inner catch goes on with the next episode
EpisodeFailed(w) ==
  /\ txWorkers[w].pc = "episodeFailed"
  /\ episodeRows' = [episodeRows EXCEPT ![TxEpisodeOf(w)] = "FAILED"]
  /\ txWorkers' = TxAdvance(w, FALSE)
  /\ txLast' = [op |-> "episodeFailed", worker |-> w, episodeId |-> TxEpisodeOf(w)]
  /\ UNCHANGED <<transcriptTable, txQueue, deepgramKeySet>>

\* the handler after the loop: it throws or queues analyze, and the worker is free
TranscribeEnd(w) ==
  /\ txWorkers[w].pc = "end"
  /\ txWorkers' = [txWorkers EXCEPT ![w] =
                     [pc |-> "idle", episodeIds |-> <<>>, i |-> 0, transcribedEpisodeIds |-> <<>>]]
  /\ txLast' = [op |-> "end", worker |-> w, episodeId |-> 0]
  /\ UNCHANGED <<episodeRows, transcriptTable, txQueue, deepgramKeySet>>

TxNext ==
  /\ \E w \in 1..NumWorkers :
       \/ TranscribeTake(w)
       \/ TranscribeFind(w)
       \/ SetProcessing(w)
       \/ CallDeepgram(w)
       \/ UpsertCompleted(w)
       \/ EpisodeCompleted(w)
       \/ UpsertFailed(w)
       \/ EpisodeFailed(w)
       \/ TranscribeEnd(w)
  /\ UNCHANGED <<pipeVars, selVars, scoreVars, orchVars, narrVars, asmVars, durVars, crawlVars, orderVars>>

TranscriptionSpec == TxInit /\ [][TxNext]_vars

\* ─── Specification of parseDuration on bounded strings ───────────────────
\* A string is the sequence of its characters.

Digits == {"0", "1", "2", "3", "4", "5", "6", "7", "8", "9"}

DigitValue(c) ==
  CASE c = "0" -> 0 [] c = "1" -> 1 [] c = "2" -> 2 [] c = "3" -> 3 [] c = "4" -> 4
    [] c = "5" -> 5 [] c = "6" -> 6 [] c = "7" -> 7 [] c = "8" -> 8 [] OTHER -> 9

\* /^\d+$/.test(str)
IsDigits(str) == Len(str) > 0 /\ \A i \in 1..Len(str) : str[i] \in Digits

\* the value of a string of decimal digits
RECURSIVE DecimalValue(_)
DecimalValue(str) ==
  IF Len(str) = 0 THEN 0
  ELSE 10 * DecimalValue(SubSeq(str, 1, Len(str) - 1)) + DigitValue(str[Len(str)])

\* parseInt(str, 10) of a string of decimal digits
parseInt(str) == DecimalValue(str)

\* String.prototype.trim: white space is dropped at both ends
RECURSIVE trimString(_)
trimString(str) ==
  IF Len(str) = 0 THEN str
  ELSE IF Head(str) = " " THEN trimString(Tail(str))
  ELSE IF str[Len(str)] = " " THEN trimString(SubSeq(str, 1, Len(str) - 1))
  ELSE str

\* str.split(":"): the pieces between the colons, empty ones included
RECURSIVE split(_, _)
split(str, piece) ==
  IF Len(str) = 0 THEN <<piece>>
  ELSE IF Head(str) = ":" THEN <<piece>> \o split(Tail(str), <<>>)
  ELSE split(Tail(str), Append(piece, Head(str)))

\* Number(str): white space around the text is ignored, the empty text is 0,
\* an optional sign before decimal digits is a number, anything else is NaN
Number(str) ==
  LET t == trimString(str)
  IN IF Len(t) = 0 THEN [isNaN |-> FALSE, value |-> 0]
     ELSE IF IsDigits(t) THEN [isNaN |-> FALSE, value |-> DecimalValue(t)]
     ELSE IF Head(t) = "-" /\ IsDigits(Tail(t))
       THEN [isNaN |-> FALSE, value |-> 0 - DecimalValue(Tail(t))]
     ELSE [isNaN |-> TRUE, value |-> 0]

\* parseDuration: null, or a number of seconds
parseDuration(str) ==
  IF Len(str) = 0 THEN [isNull |-> TRUE, value |-> 0]
  ELSE
    LET trimmed == trimString(str)
    IN IF Len(trimmed) = 0 THEN [isNull |-> TRUE, value |-> 0]
       ELSE IF IsDigits(trimmed) THEN [isNull |-> FALSE, value |-> parseInt(trimmed)]
       ELSE
         LET pieces == split(trimmed, <<>>)
             parts == [i \in 1..Len(pieces) |-> Number(pieces[i])]
         IN IF \E i \in 1..Len(parts) : parts[i].isNaN THEN [isNull |-> TRUE, value |-> 0]
            ELSE IF Len(parts) = 3
              THEN [isNull |-> FALSE,
                    value |-> parts[1].value * 3600 + parts[2].value * 60 + parts[3].value]
            ELSE IF Len(parts) = 2
              THEN [isNull |-> FALSE, value |-> parts[1].value * 60 + parts[2].value]
            ELSE [isNull |-> TRUE, value |-> 0]

\* the characters of the duration texts explored
DurationChars == {"1", "5", ":", "-", "a", " "}

DurationStrings == UNION {[1..n -> DurationChars] : n \in 0..MaxDurationLen}

DurInit ==
  /\ PipeInit
  /\ ScoreIdle
  /\ OrchIdle /\ NarrIdle /\ AsmIdle /\ TxIdle /\ CrawlIdle /\ OrderIdle
  /\ budget = [digests |-> 0, faults |-> 0, cancels |-> 0, retries |-> 0, rejects |-> 0]
  /\ selPc = "idle"
  /\ selCandidates = <<>>
  /\ selConfig = [targetLengthMinutes |-> 30, clipLengthPref |-> "MEDIUM",
                  breadthDepth |-> 50, structure |-> "BY_SCORE"]
  /\ selResult = <<>>
  /\ durationStr \in DurationStrings
  /\ durOut = [pc |-> "idle", isNull |-> TRUE, value |-> 0]

ParseDurationCall ==
  /\ durOut.pc = "idle"
  /\ LET r == parseDuration(durationStr)
     IN durOut' = [pc |-> "done", isNull |-> r.isNull, value |-> r.value]
  /\ UNCHANGED <<pipeVars, selVars, scoreVars, orchVars, narrVars, asmVars, txVars, crawlVars, orderVars, durationStr>>

DurNext == ParseDurationCall

DurationSpec == DurInit /\ [][DurNext]_vars

\* ─── Specification of the HTTP trigger route and the pipeline queue ──────
\* The route that starts a digest on request, the processor of the pipeline
\* queue, and the pipeline of the specification Spec; the workers are
\* scheduled fairly.

\* the nonce that stands for the job id "digest-{digestId}" on the pipeline queue
RouteJobNonce == 0 - 1

\* pipelineQueue.add({ digestId, userId, configId }, { jobId: "digest-{digestId}" })
AddRouteJob(js, d, userId, configId) ==
  IF HasJob(js, "pipeline", d, RouteJobNonce) THEN js
  ELSE js \cup {[queue |-> "pipeline", digestId |-> d, nonce |-> RouteJobNonce,
                 state |-> "waiting", attemptsMade |-> 0, payload |-> 0,
                 episodeIds |-> <<>>, userId |-> userId, configId |-> configId]}

\* POST of the generate route, for the signed-in user userId: 404 for a config
\* of another user, 409 while the user has a digest that is not COMPLETED or
\* FAILED, else a PENDING Digest row and a job on the pipeline queue
POST(userId, configId) ==
  /\ Len(digests) < budget.digests
  /\ LET pendingDigest == \E d \in DigestIds :
                            digests[d].userId = userId /\ digests[d].status \notin Terminal
     IN IF DigestConfigs[configId].userId # userId \/ pendingDigest
          THEN UNCHANGED <<digests, jobs>>
          ELSE /\ digests' = Append(digests, NewDigest(userId, configId))
               /\ jobs' = AddRouteJob(jobs, Len(digests) + 1, userId, configId)
  /\ UNCHANGED <<clipRows, feeds, retryNonce, faults, cancels, cancelledInFlight, transcripts, noTranscripts, rejects, lastRejected, selVars, scoreVars, auxVars, budget>>

\* pipelineQueue.process: the handler runs the hourly check for whatever job
\* it is given; job.data is not read
PipelineProcess(j) ==
  /\ j \in jobs /\ j.queue = "pipeline" /\ j.state = "waiting"
  /\ Len(digests) + Cardinality({i \in 1..Len(ConfigIds) : DigestConfigs[ConfigIds[i]].isActive})
       <= MaxDigests
  /\ \E now \in Nows :
       LET r == CronLoop(1, ConfigIds, DigestConfigs, now,
                         [c \in DOMAIN DigestConfigs |-> "ok"], digests, jobs, <<>>)
       IN /\ digests' = r.digests
          /\ jobs' = CompleteJob(r.jobs, j)
  /\ UNCHANGED <<clipRows, feeds, retryNonce, faults, cancels, cancelledInFlight, transcripts, noTranscripts, rejects, lastRejected, selVars, scoreVars, auxVars, budget>>

HttpInit ==
  /\ PipeInit
  /\ ScoreIdle
  /\ AuxIdle
  /\ budget = [digests |-> MaxDigests - 1, faults |-> 1, cancels |-> MaxCancels,
               retries |-> MaxRetries, rejects |-> 0]
  /\ selPc = "idle"
  /\ selCandidates = <<>>
  /\ selConfig = [targetLengthMinutes |-> 30, clipLengthPref |-> "MEDIUM",
                  breadthDepth |-> 50, structure |-> "BY_SCORE"]
  /\ selResult = <<>>

\* a step of a queue processor: the pipeline queue or a stage worker
WorkerStep ==
  \/ \E j \in jobs : PipelineProcess(j)
  \/ \E j \in jobs : StageStart(j)
  \/ \E j \in jobs : CrawlFinish(j)
  \/ \E j \in jobs : TranscribeFinish(j)
  \/ \E j \in jobs : AnalyzeFinish(j)
  \/ \E j \in jobs : NarrateFinish(j)
  \/ \E j \in jobs : AssembleFinish(j)
  \/ \E j \in jobs : DeliverFinish(j)

HttpNext ==
  \/ \E u \in Users, i \in 1..Len(ConfigIds) : POST(u, ConfigIds[i])
  \/ \E j \in jobs : PipelineProcess(j)
  \/ Next

\* Bull hands every waiting job to a free processor, and a handler that was
\* entered runs to its end
HttpSpec == HttpInit /\ [][HttpNext]_vars /\ WF_vars(WorkerStep)

\* ─── Specification of crawlSubscribedFeeds on bounded feeds ──────────────
\* Instants are whole days; 0 stands for null (no date).  An Episode row is
\* known by its key <<podcastId, guid>>; guid 0 stands for a missing guid.

\* new Date() at the time of the crawl, and seven days
CrawlNow == 10
SevenDays == 7

\* the item is upserted: it has an audio enclosure, is not dated at or before
\* the cutoff, and has a guid
IsNewItem(item, cutoffDate) ==
  /\ item.audioUrl
  /\ ~(item.publishedAt # 0 /\ item.publishedAt <= cutoffDate)
  /\ item.guid # 0

\* the for loop of crawlNewEpisodes from item i on; upserts = number of
\* upserts made so far, failAt = the upsert that rejects (0 for none)
RECURSIVE UpsertLoop(_, _, _, _, _, _, _)
UpsertLoop(podcastId, items, i, cutoffDate, failAt, newEpisodes, upserts) ==
  IF i > Len(items) THEN [threw |-> FALSE, newEpisodes |-> newEpisodes]
  ELSE IF ~IsNewItem(items[i], cutoffDate)
    THEN UpsertLoop(podcastId, items, i + 1, cutoffDate, failAt, newEpisodes, upserts)
  ELSE IF upserts + 1 = failAt THEN [threw |-> TRUE, newEpisodes |-> newEpisodes]
  ELSE UpsertLoop(podcastId, items, i + 1, cutoffDate, failAt,
                  Append(newEpisodes, <<podcastId, items[i].guid>>), upserts + 1)

\* crawlNewEpisodes(podcastId): feed.fail says which awaited call rejects.
\* The result: threw, the episodes returned, the Episode rows written and
\* the podcast's lastCrawledAt afterwards.
crawlNewEpisodesStampFirst(podcastId, feed, lastCrawledAt) ==
  LET cutoffDate == IF lastCrawledAt # 0 THEN lastCrawledAt ELSE CrawlNow - SevenDays
      loop == UpsertLoop(podcastId, feed.items, 1, cutoffDate,
                         IF feed.fail = "upsert" THEN 2 ELSE 0, <<>>, 0)
      written == {loop.newEpisodes[k] : k \in 1..Len(loop.newEpisodes)}
  IN IF feed.fail = "crawlFeed"
       THEN [threw |-> TRUE, newEpisodes |-> <<>>, upserted |-> {},
             lastCrawledAt |-> CrawlNow]
     ELSE IF loop.threw \/ feed.fail = "update"
       THEN [threw |-> TRUE, newEpisodes |-> <<>>, upserted |-> written,
             lastCrawledAt |-> CrawlNow]
     ELSE [threw |-> FALSE, newEpisodes |-> loop.newEpisodes, upserted |-> written,
           lastCrawledAt |-> CrawlNow]

crawlNewEpisodes(podcastId, feed, lastCrawledAt) ==
  LET cutoffDate == IF lastCrawledAt # 0 THEN lastCrawledAt ELSE CrawlNow - SevenDays
      loop == UpsertLoop(podcastId, feed.items, 1, cutoffDate,
                         IF feed.fail = "upsert" THEN 2 ELSE 0, <<>>, 0)
      written == {loop.newEpisodes[k] : k \in 1..Len(loop.newEpisodes)}
  IN IF feed.fail = "crawlFeed"
       THEN [threw |-> TRUE, newEpisodes |-> <<>>, upserted |-> {},
             lastCrawledAt |-> lastCrawledAt]
     ELSE IF loop.threw \/ feed.fail = "update"
       THEN [threw |-> TRUE, newEpisodes |-> <<>>, upserted |-> written,
             lastCrawledAt |-> lastCrawledAt]
     ELSE [threw |-> FALSE, newEpisodes |-> loop.newEpisodes, upserted |-> written,
           lastCrawledAt |-> CrawlNow]

\* the for loop of crawlSubscribedFeeds from subscription i on: try
\* crawlNewEpisodes and push the ids, catch and go on
RECURSIVE SubscriptionLoop(_, _, _, _, _, _)
SubscriptionLoop(subscriptions, i, rssFeeds, lastCrawledAt, allNewEpisodeIds, upserted) ==
  IF i > Len(subscriptions)
    THEN [threw |-> FALSE, allNewEpisodeIds |-> allNewEpisodeIds,
          lastCrawledAt |-> lastCrawledAt, upserted |-> upserted]
  ELSE
    LET p == subscriptions[i]
        r == crawlNewEpisodes(p, rssFeeds[p], lastCrawledAt[p])
    IN SubscriptionLoop(subscriptions, i + 1, rssFeeds,
                        [lastCrawledAt EXCEPT ![p] = r.lastCrawledAt],
                        IF r.threw THEN allNewEpisodeIds
                        ELSE allNewEpisodeIds \o r.newEpisodes,
                        upserted \cup r.upserted)

\* crawlSubscribedFeeds(userId), given the user's active subscriptions in
\* findMany order
crawlSubscribedFeeds(subscriptions, rssFeeds, lastCrawledAt) ==
  SubscriptionLoop(subscriptions, 1, rssFeeds, lastCrawledAt, <<>>, {})

\* the items of a feed: none, or a new episode, an old one, one without
\* guid, one without enclosure, an undated one and one of four days ago
FeedItemLists ==
  {<<>>,
   <<[guid |-> 1, audioUrl |-> TRUE, publishedAt |-> 8],
     [guid |-> 2, audioUrl |-> TRUE, publishedAt |-> 3],
     [guid |-> 0, audioUrl |-> TRUE, publishedAt |-> 9],
     [guid |-> 3, audioUrl |-> FALSE, publishedAt |-> 9],
     [guid |-> 4, audioUrl |-> TRUE, publishedAt |-> 0],
     [guid |-> 5, audioUrl |-> TRUE, publishedAt |-> 4]>>}

\* which awaited call of crawlNewEpisodes rejects: none, the fetch of the
\* feed, the second episode upsert, the update of lastCrawledAt
FeedFailures == {"none", "crawlFeed", "upsert", "update"}

FeedStates == [items : FeedItemLists, fail : FeedFailures]

CrawlInit ==
  /\ PipeInit
  /\ ScoreIdle
  /\ OrchIdle /\ NarrIdle /\ AsmIdle /\ TxIdle /\ DurIdle /\ OrderIdle
  /\ budget = [digests |-> 0, faults |-> 0, cancels |-> 0, retries |-> 0, rejects |-> 0]
  /\ selPc = "idle"
  /\ selCandidates = <<>>
  /\ selConfig = [targetLengthMinutes |-> 30, clipLengthPref |-> "MEDIUM",
                  breadthDepth |-> 50, structure |-> "BY_SCORE"]
  /\ selResult = <<>>
  /\ \E n \in 0..MaxFeeds :
       \E rssFeeds \in [1..n -> FeedStates], lastCrawledAt \in [1..n -> {0, 5}] :
         crawlIn = [subscriptions |-> [i \in 1..n |-> i], feeds |-> rssFeeds,
                    lastCrawledAt |-> lastCrawledAt]
  /\ crawlOut = [pc |-> "idle", threw |-> FALSE, allNewEpisodeIds |-> <<>>,
                 lastCrawledAt |-> <<>>, upserted |-> {}]

CrawlCall ==
  /\ crawlOut.pc = "idle"
  /\ LET r == crawlSubscribedFeeds(crawlIn.subscriptions, crawlIn.feeds, crawlIn.lastCrawledAt)
     IN crawlOut' = [pc |-> "done", threw |-> r.threw,
                     allNewEpisodeIds |-> r.allNewEpisodeIds,
                     lastCrawledAt |-> r.lastCrawledAt, upserted |-> r.upserted]
  /\ UNCHANGED <<pipeVars, selVars, scoreVars, orchVars, narrVars, asmVars, txVars, durVars, orderVars, crawlIn>>

CrawlNext == CrawlCall

CrawlSpec == CrawlInit /\ [][CrawlNext]_vars

\* ─── Specification of the ordering step and the DigestClip rows ──────────

\* podcast title (as its rank in localeCompare order) of each episode:
\* episodes 2 and 3 are of the same show
OrderTitleOf == <<2, 1, 1>>

OrderClips ==
  {[episodeId |-> e, podcastTitle |-> OrderTitleOf[e], startTime |-> s,
    endTime |-> s + 300, score |-> sc] :
     e \in {1, 2, 3}, s \in {0, 400}, sc \in {50, 70}}

\* what the selection loop hands to the ordering step: clips in descending
\* score order, no two of one episode overlapping
SelectedLists ==
  UNION {{q \in [1..n -> OrderClips] :
            /\ \A i, k \in 1..n : i < k => q[i].score >= q[k].score
            /\ \A k \in 2..n : ~hasOverlap(SubSeq(q, 1, k - 1), q[k])} :
           n \in 0..MaxOrderClips}

Structures == {"BY_SCORE", "BY_SHOW", "BY_TOPIC", "CHRONOLOGICAL"}

\* analyzeTranscripts: one prisma.digestClip.create per selected clip, position i
createDigestClips(selectedClips) ==
  [i \in 1..Len(selectedClips) |->
     [episodeId |-> selectedClips[i].episodeId, startTime |-> selectedClips[i].startTime,
      endTime |-> selectedClips[i].endTime, score |-> selectedClips[i].score,
      position |-> i - 1]]

OrderInit ==
  /\ PipeInit
  /\ ScoreIdle
  /\ OrchIdle /\ NarrIdle /\ AsmIdle /\ TxIdle /\ DurIdle /\ CrawlIdle
  /\ budget = [digests |-> 0, faults |-> 0, cancels |-> 0, retries |-> 0, rejects |-> 0]
  /\ selPc = "idle"
  /\ selCandidates = <<>>
  /\ selConfig = [targetLengthMinutes |-> 30, clipLengthPref |-> "MEDIUM",
                  breadthDepth |-> 50, structure |-> "BY_SCORE"]
  /\ selResult = <<>>
  /\ orderIn \in [selected : SelectedLists, structure : Structures]
  /\ orderOut = [pc |-> "idle", selectedClips |-> <<>>, rows |-> <<>>]

\* the end of selectClips and the persisting loop of analyzeTranscripts
OrderAndPersist ==
  /\ orderOut.pc = "idle"
  /\ LET selectedClips == orderClipsByStructure(orderIn.selected, orderIn.structure)
     IN orderOut' = [pc |-> "done", selectedClips |-> selectedClips,
                     rows |-> createDigestClips(selectedClips)]
  /\ UNCHANGED <<pipeVars, selVars, scoreVars, orchVars, narrVars, asmVars, txVars, durVars, crawlVars, orderIn>>

OrderNext == OrderAndPersist

OrderSpec == OrderInit /\ [][OrderNext]_vars

\* ─── Specification of the pipeline with fair workers ─────────────────────

\* The runs explored: one digest whose stages throw until the attempts are
\* used up and which is retried, one digest with one stage exception, a
\* cancel and a retry, or several digests side by side without faults.
FairInit ==
  /\ PipeInit
  /\ ScoreIdle
  /\ AuxIdle
  /\ budget \in {[digests |-> 1, faults |-> MaxFaults, cancels |-> 0,
                  retries |-> MaxRetries, rejects |-> 0],
                 [digests |-> 1, faults |-> 1, cancels |-> MaxCancels,
                  retries |-> MaxRetries, rejects |-> 0],
                 [digests |-> MaxDigests, faults |-> 0, cancels |-> 0, retries |-> 0,
                  rejects |-> 0]}
  /\ selPc = "idle"
  /\ selCandidates = <<>>
  /\ selConfig = [targetLengthMinutes |-> 30, clipLengthPref |-> "MEDIUM",
                  breadthDepth |-> 50, structure |-> "BY_SCORE"]
  /\ selResult = <<>>

\* Every queue has a running processor (startAllWorkers), so a job that is
\* waiting is eventually taken and a handler that was entered eventually
\* returns or throws.
FairSpec == FairInit /\ [][Next]_vars /\ WF_vars(WorkerStep)

\* ═════════════════════════════════════════════════════════════════════════
\* Properties
\* ═════════════════════════════════════════════════════════════════════════

StatusIndex(st) == CHOOSE i \in 1..Len(StatusOrder) : StatusOrder[i] = st

\* one step of a status sequence that is a prefix of StatusOrder, or such a
\* prefix closed by FAILED
LegalStatusStep(s, t) ==
  \/ s = t
  \/ s \notin Terminal /\ t = "FAILED"
  \/ s \notin Terminal /\ t # "FAILED" /\ StatusIndex(t) = StatusIndex(s) + 1

\* C1: without an explicit retry, the status of a digest starts at PENDING,
\* only ever moves to the next status in stage order or to FAILED, and never
\* changes again once it is COMPLETED or FAILED.
C1_StatusPrefixOrFailed ==
  [][/\ \A d \in DigestIds :
          retryNonce'[d] = 0 => LegalStatusStep(digests[d].status, digests'[d].status)
     /\ \A d \in (1..Len(digests')) \ DigestIds : digests'[d].status = "PENDING"]_vars

\* C2: a FAILED digest stays FAILED in every step that is not a
\* retryFailedDigest call for that digest.
C2_FailedUntilRetry ==
  [][\A d \in DigestIds :
       (digests[d].status = "FAILED" /\ retryNonce'[d] = retryNonce[d])
         => digests'[d].status = "FAILED"]_vars

\* C3: every DigestConfig has at most one Digest in a non-terminal status.
C3_OneActiveRunPerConfig ==
  \A i \in 1..Len(ConfigIds) :
    Cardinality({d \in DigestIds : /\ digests[d].configId = ConfigIds[i]
                                   /\ digests[d].status \notin Terminal}) <= 1

\* C4: after a digest was cancelled while one of its stage jobs was being
\* processed, the hand-off of that stage has no effect: no job of a later
\* stage of the digest is queued or processed, and the status stays FAILED.
C4_CancelStopsHandOff ==
  \A d \in DigestIds :
    cancelledInFlight[d] > 0 =>
      /\ \A j \in jobs :
           (j.digestId = d /\ j.state \in {"waiting", "active"})
             => \A i \in 1..Len(Stages) : Stages[i] = j.queue => i <= cancelledInFlight[d]
      /\ digests[d].status = "FAILED"

\* C5: no two jobs of the same stage are being processed at the same time
\* for one digest.
C5_OneJobPerStageAndDigest ==
  \A j1, j2 \in jobs :
    (/\ j1.state = "active" /\ j2.state = "active"
     /\ j1.queue = j2.queue /\ j1.digestId = j2.digestId) => j1 = j2

\* C6: an analyze run that selects zero clips hands nothing on: no narrate
\* job carries an empty clipIds list, and no assemble job is processed for a
\* digest without DigestClip rows.
C6_ZeroClipsFailAnalyze ==
  /\ \A j \in jobs : (j.queue = "narrate" /\ j.state \in {"waiting", "active"}) => j.payload > 0
  /\ \A j \in jobs : (j.queue = "assemble" /\ j.state = "active")
                       => Len(clipRows[j.digestId]) > 0

\* C7: the DigestClip rows of a COMPLETED digest carry each position
\* 0..N-1 exactly once, N being the number of rows, and clipCount = N.
C7_DensePositionsWhenCompleted ==
  \A d \in DigestIds :
    digests[d].status = "COMPLETED" =>
      /\ \A p \in 0..(Len(clipRows[d]) - 1) :
           Cardinality({i \in 1..Len(clipRows[d]) : clipRows[d][i] = p}) = 1
      /\ digests[d].clipCount = Len(clipRows[d])

\* the deliver job of digest d returns in this step
DeliverSucceeds(d) ==
  \E j \in jobs : /\ j.queue = "deliver" /\ j.digestId = d /\ j.state = "active"
                  /\ j \notin jobs'
                  /\ \E k \in jobs' : /\ k.queue = "deliver" /\ k.digestId = d
                                      /\ k.nonce = j.nonce /\ k.state = "completed"

\* C8: when the delivery of a PRIVATE_RSS digest succeeds, the feed document
\* it stored lists exactly the user's completed digests that have audio, the
\* digest just delivered among them.
C8_FeedListsDeliveredDigest ==
  [][\A d \in DigestIds :
       (DeliverSucceeds(d) /\ DigestConfigs[digests[d].configId].deliveryMethod = "PRIVATE_RSS")
         => LET items == feeds'[digests[d].userId].items
                listed == {items[i] : i \in 1..Len(items)}
            IN /\ d \in listed
               /\ listed = {x \in 1..Len(digests') :
                              /\ digests'[x].userId = digests[d].userId
                              /\ digests'[x].status = "COMPLETED"
                              /\ digests'[x].audioUrl}]_vars

RECURSIVE TotalDuration(_)
TotalDuration(clips) ==
  IF clips = <<>> THEN 0
  ELSE (Head(clips).endTime - Head(clips).startTime) + TotalDuration(Tail(clips))

InResult(c) == \E k \in 1..Len(selResult) : selResult[k] = c

\* C9: the clips selectClips returns last, in total, at most
\* 0.85 * targetLengthMinutes * 60 seconds.
C9_TotalWithinAvailable ==
  selPc = "done" =>
    100 * TotalDuration(selResult) <= 85 * selConfig.targetLengthMinutes * 60

\* a candidate of acceptable length was turned down for the time it would add
C9_Witness ==
  /\ selPc = "done"
  /\ selResult # <<>>
  /\ \E i \in 1..Len(selCandidates) :
       LET c == selCandidates[i]
       IN /\ ~InResult(c)
          /\ ~OutsideLengthRange(c, selConfig)
          /\ 100 * (TotalDuration(selResult) + (c.endTime - c.startTime))
               > 85 * selConfig.targetLengthMinutes * 60

ClipsOfEpisode(clips, e) == {k \in 1..Len(clips) : clips[k].episodeId = e}

\* C10: selectClips returns at most max(1, round(1 + 4 * breadthDepth / 100))
\* clips of any one episode; with breadthDepth 0 no two returned clips share
\* an episode, so there are at most as many clips as episodes among the candidates.
C10_PerEpisodeCap ==
  selPc = "done" =>
    LET cap == Max(1, (2 * (100 + 4 * selConfig.breadthDepth) + 100) \div 200)
        episodes == {selCandidates[i].episodeId : i \in 1..Len(selCandidates)}
    IN /\ \A e \in episodes : Cardinality(ClipsOfEpisode(selResult, e)) <= cap
       /\ selConfig.breadthDepth = 0 =>
            /\ \A e \in episodes : Cardinality(ClipsOfEpisode(selResult, e)) <= 1
            /\ Len(selResult) <= Cardinality(episodes)

\* with breadthDepth 0 a candidate that fits in length and in time and that
\* overlaps nothing was turned down: its episode already had its one clip
C10_Witness ==
  /\ selPc = "done"
  /\ selConfig.breadthDepth = 0
  /\ \E i \in 1..Len(selCandidates) :
       LET c == selCandidates[i]
       IN /\ ~InResult(c)
          /\ ~OutsideLengthRange(c, selConfig)
          /\ ~hasOverlap(selResult, c)
          /\ 100 * (TotalDuration(selResult) + (c.endTime - c.startTime))
               <= 85 * selConfig.targetLengthMinutes * 60
          /\ ClipsOfEpisode(selResult, c.episodeId) # {}

\* C11: no two clips selectClips returns that belong to the same episode
\* overlap in time: of two such clips one ends no later than the other starts.
C11_NoOverlapWithinEpisode ==
  selPc = "done" =>
    \A a, b \in 1..Len(selResult) :
      (a # b /\ selResult[a].episodeId = selResult[b].episodeId)
        => \/ selResult[a].endTime <= selResult[b].startTime
           \/ selResult[b].endTime <= selResult[a].startTime

\* two clips of one episode were selected, and a candidate of that episode
\* which fits in length, in time and under the per-episode cap was turned
\* down because it overlaps a selected clip
C11_Witness ==
  /\ selPc = "done"
  /\ \E a, b \in 1..Len(selResult) :
       a # b /\ selResult[a].episodeId = selResult[b].episodeId
  /\ \E i \in 1..Len(selCandidates) :
       LET c == selCandidates[i]
       IN /\ ~InResult(c)
          /\ ~OutsideLengthRange(c, selConfig)
          /\ 100 * (TotalDuration(selResult) + (c.endTime - c.startTime))
               <= 85 * selConfig.targetLengthMinutes * 60
          /\ Cardinality(ClipsOfEpisode(selResult, c.episodeId)) < maxClipsPerEpisode(selConfig)
          /\ \E k \in 1..Len(selResult) :
               /\ selResult[k].episodeId = c.episodeId
               /\ selResult[k].startTime < c.endTime
               /\ c.startTime < selResult[k].endTime

\* the length range [lo, hi] of each clip length preference
PreferenceRange ==
  [SHORT |-> <<120, 240>>, MEDIUM |-> <<240, 480>>, LONG |-> <<480, 900>>,
   MIXED |-> <<120, 900>>]

\* C12: every clip selectClips returns has a duration d with
\* 0.7 * effectiveMin <= d <= 1.3 * effectiveMax, where
\* effectiveMin = lo + b * (hi - lo) * 0.3, effectiveMax = hi - (1 - b) * (hi - lo) * 0.3,
\* b = breadthDepth / 100 and [lo, hi] is the range of the clip length preference.
C12_DurationWithinEffectiveRange ==
  selPc = "done" =>
    \A k \in 1..Len(selResult) :
      LET d == selResult[k].endTime - selResult[k].startTime
          lo == PreferenceRange[selConfig.clipLengthPref][1]
          hi == PreferenceRange[selConfig.clipLengthPref][2]
          bd == selConfig.breadthDepth
      IN /\ 7 * (1000 * lo + 3 * bd * (hi - lo)) <= 10000 * d
         /\ 10000 * d <= 13 * (1000 * hi - 3 * (100 - bd) * (hi - lo))

\* a clip of the longest admissible whole number of seconds was selected
\* while a candidate one second longer was turned down
C12_Witness ==
  /\ selPc = "done"
  /\ \E k \in 1..Len(selResult), i \in 1..Len(selCandidates) :
       /\ ~InResult(selCandidates[i])
       /\ clipDuration(selCandidates[i]) = clipDuration(selResult[k]) + 1
       /\ 10000 * clipDuration(selCandidates[i]) > 13 * effectiveMax1000(selConfig)

\* the config of the depth-dominance example: long clips, breadthDepth 100
DepthDominance ==
  /\ selPc = "done"
  /\ selConfig.clipLengthPref = "LONG"
  /\ selConfig.breadthDepth = 100
  /\ Len(selCandidates) = 1

\* C13 as stated: with long clips and breadthDepth 100 a lone candidate is
\* rejected exactly when it is shorter than 424 s or longer than 1170 s.
C13_RejectedBelow424OrAbove1170 ==
  DepthDominance =>
    LET d == clipDuration(selCandidates[1])
    IN (selResult = <<>>) <=> (d < 424 \/ d > 1170)

\* C13, amended: with long clips and breadthDepth 100 effectiveMin is 606,
\* effectiveMax is 900 and maxClipsPerEpisode is 5, and a lone candidate is
\* rejected exactly when it is shorter than 0.7 * 606 = 424.2 s or longer
\* than 1170 s: 425 s and 1170 s pass, 424 s and 1171 s do not.
C13_RejectedBelow425OrAbove1170 ==
  DepthDominance =>
    LET d == clipDuration(selCandidates[1])
    IN /\ effectiveMin1000(selConfig) = 606000
       /\ effectiveMax1000(selConfig) = 900000
       /\ maxClipsPerEpisode(selConfig) = 5
       /\ (selResult = <<>>) <=> (d < 425 \/ d > 1170)

\* a lone candidate of exactly 424 s was handed to selectClips with long
\* clips and breadthDepth 100
C13_Witness ==
  /\ DepthDominance
  /\ clipDuration(selCandidates[1]) = 424
  /\ selResult = <<>>

\* C14: with targetLength 30, medium clips, breadthDepth 50 and the six
\* candidates of the example, selectClips keeps candidates 1-4 (1310 s),
\* drops the fifth (1700 s would exceed 1530 s) and admits the sixth, for a
\* total of 1520 s.
C14_TightDigestSelection ==
  selPc = "done" =>
    /\ selResult = <<TightCandidates[1], TightCandidates[2], TightCandidates[3],
                     TightCandidates[4], TightCandidates[6]>>
    /\ TotalDuration(SubSeq(selResult, 1, 4)) = 1310
    /\ 1310 + clipDuration(TightCandidates[5]) = 1700
    /\ TotalDuration(selResult) = 1520

\* the selection was made from the candidates handed over worst score first
C14_Witness ==
  /\ selPc = "done"
  /\ selCandidates = [i \in 1..6 |-> TightCandidates[7 - i]]
  /\ Len(selResult) = 5

\* every ordering of the elements of the sequence s
Orderings(s) ==
  {[i \in 1..Len(s) |-> s[p[i]]] :
     p \in {q \in [1..Len(s) -> 1..Len(s)] : \A i, k \in 1..Len(s) : q[i] = q[k] => i = k}}

\* C15: selection is deterministic given the candidate set and the config:
\* handed the same candidates in any other order, selectClips returns the
\* same clips in the same order.
C15_SameResultForEveryOrdering ==
  selPc = "done" =>
    \A other \in Orderings(selCandidates) : selectClips(other, selConfig) = selResult

\* C16: each of the five dimension scores is clamped to a whole number in
\* 0..100, the score 0.25 * insightDensity + 0.20 * emotionalIntensity +
\* 0.20 * actionability + 0.20 * topicalRelevance + 0.15 * conversationalQuality
\* lies in [0, 100], and the candidate is kept iff that score is at least 40.
C16_KeptIffWeightedScoreAtLeast40 ==
  scorePc = "done" =>
    LET d == scoreOut.dimensions
        score100 == 25 * d[1] + 20 * d[2] + 20 * d[3] + 20 * d[4] + 15 * d[5]
    IN /\ \A i \in 1..5 : d[i] \in 0..100
       /\ score100 \in 0..10000
       /\ scoreOut.kept <=> score100 >= 4000

\* job j was being processed and its handler returns or throws in this step
RunEnds(j) ==
  /\ j \in jobs /\ j.state = "active"
  /\ ~\E k \in jobs' : /\ k.queue = j.queue /\ k.digestId = j.digestId
                        /\ k.nonce = j.nonce /\ k.state = "active"

\* job j is moved to completed in this step
RunSucceeds(j) ==
  /\ RunEnds(j)
  /\ \E k \in jobs' : /\ k.queue = j.queue /\ k.digestId = j.digestId
                       /\ k.nonce = j.nonce /\ k.state = "completed"

\* C17: a transcribe run succeeds iff at least one of its episodes ends with
\* a completed transcript; on success one analyze job is queued whose
\* episodeIds are the completed episodes in input order; with zero completed
\* episodes the digest is FAILED with the no-transcripts error and no analyze
\* job is queued, then or later (until the digest is retried).
C17_TranscribeHandsOnCompletedEpisodes ==
  [][/\ \A j \in jobs :
          (j.queue = "transcribe" /\ RunEnds(j)) =>
            LET d == j.digestId
                completed == SelectSeq(j.episodeIds, LAMBDA e : e \in transcripts')
                analyzeJobs == {k \in jobs' : k.queue = "analyze" /\ k.digestId = d}
            IN /\ RunSucceeds(j) <=> Len(completed) > 0
               /\ Len(completed) > 0 =>
                    /\ Cardinality(analyzeJobs) = 1
                    /\ \A k \in analyzeJobs : k.state = "waiting" /\ k.episodeIds = completed
               /\ Len(completed) = 0 =>
                    /\ digests'[d].status = "FAILED"
                    /\ digests'[d].error = StageError["transcribe"]
                    /\ analyzeJobs = {}
     /\ \A d \in DigestIds :
          (noTranscripts[d] /\ noTranscripts'[d] /\ ~HasJob(jobs, "analyze", d, 0))
            => ~HasJob(jobs', "analyze", d, 0)]_vars

\* C18: a crawl run that finds episodes (new ones or, failing that, at most
\* 50 recent ones) hands their ids on to the transcribe stage; a crawl run
\* that finds none fails the digest with the no-episodes error and queues no
\* transcribe job.
C18_CrawlHandsOnOrFails ==
  [][\A j \in jobs :
       (j.queue = "crawl" /\ RunEnds(j)) =>
         LET d == j.digestId
         IN IF RunSucceeds(j)
              THEN \E k \in jobs' :
                     /\ k.queue = "transcribe" /\ k.digestId = d
                     /\ k.state \in {"waiting", "active"}
                     /\ Len(k.episodeIds) \in 1..50
              ELSE /\ digests'[d].status = "FAILED"
                   /\ digests'[d].error = StageError["crawl"]
                   /\ HasJob(jobs', "transcribe", d, 0) => HasJob(jobs, "transcribe", d, 0)]_vars

\* a call of op for digest d is rejected in this step
RejectedNow(op, d) ==
  rejects' # rejects /\ lastRejected'.op = op /\ lastRejected'.d = d

\* C19: a retry takes effect only on a FAILED digest: it sets the status to
\* PENDING, clears the error and queues exactly one crawl job, with the id
\* crawl-retry-{digestId}-{nonce}; a retry of a digest in any other status is
\* rejected and changes neither the digest rows nor the queues.
C19_RetryOnlyWhenFailed ==
  [][\A d \in DigestIds :
       /\ retryNonce'[d] # retryNonce[d] =>
            /\ digests[d].status = "FAILED"
            /\ digests'[d].status = "PENDING"
            /\ digests'[d].error = "null"
            /\ jobs \subseteq jobs'
            /\ Cardinality(jobs' \ jobs) = 1
            /\ \A j \in jobs' \ jobs :
                 /\ j.queue = "crawl" /\ j.digestId = d /\ j.state = "waiting"
                 /\ j.nonce = retryNonce'[d] /\ j.nonce > 0
       /\ RejectedNow("retry", d) =>
            /\ digests[d].status # "FAILED"
            /\ digests' = digests
            /\ jobs' = jobs
       /\ (digests[d].status # "PENDING" /\ digests'[d].status = "PENDING")
            => retryNonce'[d] # retryNonce[d]]_vars

\* a retry was rejected on a digest that was not FAILED, and later, the
\* digest having failed, a retry was accepted
C19_Witness ==
  /\ rejects = 1
  /\ lastRejected.op = "retry"
  /\ retryNonce[lastRejected.d] = 1
  /\ digests[lastRejected.d].status = "PENDING"
  /\ \E j \in jobs : /\ j.queue = "crawl" /\ j.digestId = lastRejected.d
                      /\ j.nonce = 1 /\ j.state = "waiting"

\* C20: a cancel of a COMPLETED or FAILED digest is rejected and leaves the
\* digest rows (status, error) and every queue as they are.
C20_CancelOfTerminalDigestRejected ==
  [][\A d \in DigestIds :
       /\ RejectedNow("cancel", d) =>
            /\ digests[d].status \in Terminal
            /\ digests' = digests
            /\ jobs' = jobs
       /\ digests[d].status \in Terminal =>
            /\ cancels' = cancels \/ \E x \in DigestIds : digests[x].status \notin Terminal
            /\ digests'[d].error = "Cancelled by user" => digests[d].error = "Cancelled by user"
            /\ \A j \in jobs : j.digestId = d => HasJob(jobs', j.queue, d, j.nonce)]_vars

\* a cancel was rejected on a digest that had been delivered
C20_Witness ==
  /\ rejects = 1
  /\ lastRejected.op = "cancel"
  /\ digests[lastRejected.d].status = "COMPLETED"
  /\ digests[lastRejected.d].error = "null"

\* a cancelDigest call for d passes the status check and returns in this step
CancelReturns(d) ==
  /\ cancels' # cancels
  /\ digests[d].status \notin Terminal
  /\ digests'[d].status = "FAILED"
  /\ digests'[d].error = "Cancelled by user"
  /\ \A x \in DigestIds \ {d} : digests'[x] = digests[x]

\* C21: when a cancel of a non-terminal digest returns, the digest is FAILED
\* with the cancel error and no waiting stage job of that digest is left in any
\* stage queue, the crawl job queued by an earlier retry included.
C21_CancelLeavesNoWaitingJob ==
  [][\A d \in DigestIds :
       CancelReturns(d) =>
         /\ digests'[d].status = "FAILED"
         /\ digests'[d].error = "Cancelled by user"
         /\ \A j \in jobs' : j.digestId = d => j.state # "waiting"]_vars

\* the config is due at the instant: its deliveryDay names the UTC weekday
\* (whatever the case of its letters) and the hour of its deliveryTime is the UTC hour
DueAt(c, now) ==
  /\ \/ (now.utcDay = 1 /\ CronConfigs[c].deliveryDay \in {"monday", "Monday", "MONDAY"})
     \/ (now.utcDay = 2 /\ CronConfigs[c].deliveryDay \in {"tuesday", "Tuesday", "TUESDAY"})
  /\ CronConfigs[c].deliveryTime[1] = now.utcHours

\* the config had a PENDING..DELIVERING digest when the hourly check began
HadDigestInProgress(c) ==
  \E d \in 1..Len(lastCall.before) :
    /\ lastCall.before[d].configId = c
    /\ lastCall.before[d].status \notin {"COMPLETED", "FAILED"}

ShouldTrigger(c) ==
  CronConfigs[c].isActive /\ ~HadDigestInProgress(c) /\ DueAt(c, lastCall.now)

\* C22: a run of the hourly check calls trigger for exactly the active configs
\* that have no non-terminal digest and whose deliveryDay and deliveryTime hour
\* match the current UTC weekday and hour, each once and in order; inactive
\* configs are never triggered, and a trigger that throws does not stop the
\* loop from reaching the configs after it.
C22_CronTriggersExactlyDueConfigs ==
  lastCall.op = "cron" =>
    /\ lastCall.calls = SelectSeq(CronConfigIds, ShouldTrigger)
    /\ \A i \in 1..Len(lastCall.calls) : CronConfigs[lastCall.calls[i]].isActive

\* Monday 08:xx UTC: trigger threw for c1, the inactive c2 was passed over
\* although it is due, and c4 after them was still triggered
C22_Witness ==
  /\ lastCall.op = "cron"
  /\ lastCall.now = [utcDay |-> 1, utcHours |-> 8]
  /\ lastCall.outcome["c1"] = "create"
  /\ lastCall.calls = <<"c1", "c4">>
  /\ \E d \in 1..Len(digests) : digests[d].configId = "c4" /\ digests[d].status = "PENDING"
  /\ \E d \in 1..Len(lastCall.before) :
       lastCall.before[d].configId = "c3" /\ lastCall.before[d].status = "ANALYZING"

\* C23: triggerDigestPipeline(userId, configId) for a config of userId creates
\* exactly one Digest row, PENDING, and adds exactly one crawl job, with the id
\* crawl-{digestId} and the data {digestId, userId, configId}; for a config of
\* another user it throws, and no row and no job is created.
C23_TriggerCreatesOneDigestOneCrawlJob ==
  lastCall.op = "trigger" =>
    IF CronConfigs[lastCall.configId].userId = lastCall.userId
      THEN /\ ~lastCall.threw
           /\ Len(digests) = Len(lastCall.before) + 1
           /\ SubSeq(digests, 1, Len(lastCall.before)) = lastCall.before
           /\ digests[Len(digests)].status = "PENDING"
           /\ digests[Len(digests)].userId = lastCall.userId
           /\ digests[Len(digests)].configId = lastCall.configId
           /\ lastCall.jobsBefore \subseteq jobs
           /\ Cardinality(jobs \ lastCall.jobsBefore) = 1
           /\ \A j \in jobs \ lastCall.jobsBefore :
                /\ j.queue = "crawl" /\ j.nonce = 0 /\ j.state = "waiting"
                /\ j.digestId = Len(digests)
                /\ j.userId = lastCall.userId
                /\ j.configId = lastCall.configId
      ELSE /\ lastCall.threw
           /\ digests = lastCall.before
           /\ jobs = lastCall.jobsBefore

\* user u2 triggered its config c3 while an earlier digest of c3 was in the table
C23_Witness ==
  /\ lastCall.op = "trigger"
  /\ lastCall.userId = "u2" /\ lastCall.configId = "c3"
  /\ Len(lastCall.before) = 1
  /\ lastCall.before[1].configId = "c3"
  /\ Len(digests) = 2
  /\ \E j \in jobs : j.queue = "crawl" /\ j.digestId = 2 /\ j.configId = "c3"

\* the ids of the jobs present: queue, digest, nonce
JobKeys(js) == {<<j.queue, j.digestId, j.nonce>> : j \in js}

\* the stage after stage number i
NextStage(i) == Stages[i + 1]

\* j is the only job of its digest that is waiting or being processed
OnlyLiveJob(j) ==
  \A k \in jobs : (k.digestId = j.digestId /\ k.state \in {"waiting", "active"}) => k = j

\* C24: a stage job of digest d writes the in-progress status of its stage on
\* entry; a crawl, transcribe, analyze, narrate or assemble run that succeeds
\* adds no job but {nextStage}-{d} and, when it was the only job of d waiting
\* or running, leaves that job waiting in the queue of the next stage; a run
\* that throws adds no job and leaves the digest FAILED with the error text;
\* deliver adds no job.
C24_StageAdvance ==
  [][\A j \in jobs :
       LET d == j.digestId
           i == CHOOSE n \in 1..Len(Stages) : Stages[n] = j.queue
           added == JobKeys(jobs') \ JobKeys(jobs)
       IN /\ (j.state = "waiting" /\ [j EXCEPT !.state = "active"] \in jobs') =>
               digests'[d].status = InProgressStatus[j.queue]
          /\ (RunSucceeds(j) /\ i < Len(Stages)) =>
               /\ added \subseteq {<<NextStage(i), d, 0>>}
               /\ OnlyLiveJob(j) =>
                    \E k \in jobs' : /\ k.queue = NextStage(i) /\ k.digestId = d
                                      /\ k.nonce = 0 /\ k.state = "waiting"
          /\ (RunSucceeds(j) /\ i = Len(Stages)) => added = {}
          /\ (RunEnds(j) /\ ~RunSucceeds(j)) =>
               /\ added = {}
               /\ digests'[d].status = "FAILED"
               /\ digests'[d].error = StageError[j.queue]]_vars

\* the non-empty parts the response splits into on the delimiter
NonEmptyParts == splitScripts(narrIn.pieces)

\* C25: for a digest with N clips, generateNarrationScripts returns exactly
\* N + 2 scripts (intro at position 0, transitions at 1..N, outro at N + 1),
\* and it returns iff the response splits into exactly N + 2 non-empty parts:
\* with fewer or with more parts it throws.
C25_ExactlyNPlus2Scripts ==
  narrOut.pc = "done" =>
    LET N == narrIn.clips
    IN /\ ~narrOut.threw <=> Len(NonEmptyParts) = N + 2
       /\ ~narrOut.threw =>
            /\ Len(narrOut.scripts) = N + 2
            /\ \A i \in 1..(N + 2) :
                 /\ narrOut.scripts[i].position = i - 1
                 /\ narrOut.scripts[i].type = IF i = 1 THEN "intro"
                                              ELSE IF i = N + 2 THEN "outro"
                                              ELSE "transition"

\* the clip of the digest with the i-th smallest position (positions are 0..N-1)
ClipAt(i) == CHOOSE r \in asmIn.clips : r.position = i - 1

AsmReturned == asmPc = "done" /\ ~asmRun.threw

C27_ChapterListWithinTotalDuration ==
  AsmReturned =>
    LET N == Cardinality(asmIn.clips)
        chapters == asmRun.ret.chapters
    IN /\ Len(chapters) = N
       /\ \A i \in 1..N : chapters[i].title = ClipAt(i).episodeId
       /\ \A i \in 1..(N - 1) : chapters[i].startTime <= chapters[i + 1].startTime
       /\ asmStored.chapters = chapters
       /\ asmStored.totalDuration = asmRun.ret.totalDuration
       /\ N > 0 => chapters[N].endTime <= 10 * asmRun.ret.totalDuration

\* the same without the bound on the last chapter's end
C27_ChapterPerClipInOrder ==
  AsmReturned =>
    LET N == Cardinality(asmIn.clips)
        chapters == asmRun.ret.chapters
    IN /\ Len(chapters) = N
       /\ \A i \in 1..N : chapters[i].title = ClipAt(i).episodeId
       /\ \A i \in 1..(N - 1) : chapters[i].startTime <= chapters[i + 1].startTime
       /\ N > 0 => chapters[N].endTime <= asmRun.totalDuration

\* the sum of the durations of the first k segments
RECURSIVE DurationOfFirst(_, _)
DurationOfFirst(segments, k) ==
  IF k = 0 THEN 0 ELSE DurationOfFirst(segments, k - 1) + segments[k].duration

\* the inter-segment gap of a transition style, in tenths of a second
GapOf(transitionStyle) == IF transitionStyle = "SILENCE" THEN 5 ELSE 6

\* C28: the chapter of the i-th clip starts at the sum of the durations of the
\* 2i segments before the clip plus one gap for each of them, the gap being
\* 0.5 s for SILENCE and 0.6 s for the other styles; in the example (softFade,
\* clips 300, 240, 180 s, narrations 20, 30, 28, 32, 18 s) the first chapter
\* starts at 51.2 s and the computed total is 852.2 s.
C28_ChapterStartIsSumPlusGaps ==
  AsmReturned =>
    /\ \A i \in 1..Len(asmRun.ret.chapters) :
         asmRun.ret.chapters[i].startTime =
           DurationOfFirst(asmRun.segments, 2 * i) + 2 * i * GapOf(asmIn.transitionStyle)
    /\ asmIn = ChapterExample =>
         /\ asmRun.ret.chapters[1].startTime = 512
         /\ asmRun.cumulativeTime = 8522

\* the example was assembled
C28_Witness ==
  /\ AsmReturned
  /\ asmIn = ChapterExample
  /\ Len(asmRun.ret.chapters) = 3
  /\ asmRun.ret.chapters[1].startTime = 512

FetchFailed == asmRun.at.step \in {"downloadEpisode", "downloadNarration"}

\* C30: when a source audio or a narration audio cannot be fetched, the
\* assembly throws instead of going on without the clip: nothing is stored at
\* digests/{digestId}/digest.mp3, audioUrl, totalDuration and chapters are not
\* written, no deliver job is queued and the digest is FAILED.
C30_FetchFailureFailsAssembly ==
  (asmPc = "done" /\ FetchFailed) =>
    /\ asmRun.threw
    /\ asmRun.segments = <<>>
    /\ ~digestAudio
    /\ ~asmStored.written
    /\ ~digests[1].audioUrl
    /\ ~\E j \in jobs : j.queue = "deliver"
    /\ digests[1].status = "FAILED"
    /\ digests[1].error = StageError["assemble"]

\* the source audio of the second clip's episode could not be downloaded
C30_Witness ==
  /\ asmPc = "done"
  /\ asmRun.at = [step |-> "downloadEpisode", index |-> 2]
  /\ asmRun.files = {<<"episode", 1>>}
  /\ digests[1].status = "FAILED"

\* C31: once an episode has a completed transcript, no later step of any
\* transcription request calls the provider for it or writes its Transcript
\* or Episode row, also when two transcribe jobs process the episode at the
\* same time; the only calls left are the worker's skip and the Episode
\* update to COMPLETED that closes the request which stored the transcript.
C31_CompletedTranscriptNeverModified ==
  [][\A e \in 1..MaxTxEpisodes :
       transcriptTable[e].status = "COMPLETED" =>
         /\ transcriptTable'[e] = transcriptTable[e]
         /\ episodeRows'[e] \in {episodeRows[e], "COMPLETED"}
         /\ txLast'.episodeId = e => txLast'.op \in {"skip", "episodeCompleted"}]_vars

\* one step of pending -> processing -> completed or failed
LegalTranscriptStep(s, t) ==
  \/ s = t
  \/ s = "PENDING" /\ t = "PROCESSING"
  \/ s = "PROCESSING" /\ t \in {"COMPLETED", "FAILED"}

\* C35: Episode.transcriptStatus only advances along pending -> processing ->
\* completed or pending -> processing -> failed; it never leaves completed
\* or failed and never returns to an earlier value.
C35_TranscriptStatusMonotonic ==
  [][\A e \in 1..MaxTxEpisodes : LegalTranscriptStep(episodeRows[e], episodeRows'[e])]_vars

\* what the duration contract gives for a text: white space around the text
\* and around a part is ignored, a part is a string of decimal digits
ContractDuration(str) ==
  LET t == trimString(str)
      pieces == split(t, <<>>)
      part(i) == trimString(pieces[i])
      null == [isNull |-> TRUE, value |-> 0]
  IN IF IsDigits(t) THEN [isNull |-> FALSE, value |-> DecimalValue(t)]
     ELSE IF \E i \in 1..Len(pieces) : ~IsDigits(part(i)) THEN null
     ELSE IF Len(pieces) = 3
       THEN [isNull |-> FALSE,
             value |-> 3600 * DecimalValue(part(1)) + 60 * DecimalValue(part(2))
                         + DecimalValue(part(3))]
     ELSE IF Len(pieces) = 2
       THEN [isNull |-> FALSE, value |-> 60 * DecimalValue(part(1)) + DecimalValue(part(2))]
     ELSE null

DurationReturned == [isNull |-> durOut.isNull, value |-> durOut.value]

\* C32: parseDuration maps "H:M:S" to 3600*h + 60*m + s, "M:S" to 60*m + s
\* and a string of decimal digits N to N, and maps every other input (empty,
\* non-numeric parts, negative parts, empty parts, more than three parts) to null.
C32_ParseDurationContract ==
  durOut.pc = "done" => DurationReturned = ContractDuration(durationStr)

\* What holds of parseDuration: the contract, on every text none of whose
\* parts is empty or signed.
C32_ContractWithoutEmptyOrSignedParts ==
  LET pieces == split(trimString(durationStr), <<>>)
  IN (/\ durOut.pc = "done"
      /\ \A i \in 1..Len(pieces) :
           LET p == trimString(pieces[i]) IN Len(p) > 0 /\ Head(p) # "-")
     => DurationReturned = ContractDuration(durationStr)

\* k is the job with the id of j
SameJob(j, k) == k.queue = j.queue /\ k.digestId = j.digestId /\ k.nonce = j.nonce

\* C33: a stage job whose processing throws is put back until its third
\* attempt has thrown: no job is ever attempted more than Attempts times,
\* every attempt that throws leaves the digest FAILED, the attempt after
\* which the job is failed is the third one, and a failed job is never run again.
C33_AtMostThreeAttempts ==
  [][/\ \A k \in jobs' : k.attemptsMade < Attempts
     /\ \A j \in jobs : \A k \in jobs' :
          SameJob(j, k) =>
            /\ j.state = "failed" => k.state = "failed"
            /\ (j.state = "waiting" /\ k.state = "active") => k.attemptsMade = j.attemptsMade
            /\ (j.state = "active" /\ k.state = "waiting") =>
                 /\ k.attemptsMade = j.attemptsMade + 1
                 /\ digests'[j.digestId].status = "FAILED"
            /\ (j.state = "active" /\ k.state = "failed") =>
                 /\ j.attemptsMade = Attempts - 1
                 /\ digests'[j.digestId].status = "FAILED"]_vars

\* a job has thrown on each of its three attempts and is failed, its digest FAILED
C33_Witness ==
  /\ faults >= Attempts
  /\ Len(digests) = 1
  /\ \E j \in jobs : j.state = "failed" /\ digests[j.digestId].status = "FAILED"

\* digest d was created by the HTTP trigger route: its job is on the pipeline queue
HttpCreated(d) ==
  /\ d \in DigestIds
  /\ \E j \in jobs : j.queue = "pipeline" /\ j.digestId = d /\ j.nonce = RouteJobNonce

\* C34: every Digest row the HTTP trigger route creates with status PENDING
\* gets its crawl job and eventually leaves PENDING.
C34_RouteDigestLeavesPending ==
  \A d \in 1..MaxDigests :
    HttpCreated(d) ~> (d \in DigestIds /\ digests[d].status # "PENDING")

\* the items of the feed of podcast p that are new at the time of the crawl
NewItemsOf(p) ==
  LET cutoff == IF crawlIn.lastCrawledAt[p] # 0 THEN crawlIn.lastCrawledAt[p]
                ELSE CrawlNow - SevenDays
  IN SelectSeq(crawlIn.feeds[p].items, LAMBDA item : IsNewItem(item, cutoff))

\* the crawl of the feed of podcast p fails: the call that rejects is reached
FeedFails(p) ==
  \/ crawlIn.feeds[p].fail \in {"crawlFeed", "update"}
  \/ crawlIn.feeds[p].fail = "upsert" /\ Len(NewItemsOf(p)) >= 2

\* the ids of the new episodes of the feeds that succeed, from subscription i on
RECURSIVE IdsOfSucceededFeeds(_)
IdsOfSucceededFeeds(i) ==
  IF i > Len(crawlIn.subscriptions) THEN <<>>
  ELSE LET p == crawlIn.subscriptions[i]
           ids == [k \in 1..Len(NewItemsOf(p)) |-> <<p, NewItemsOf(p)[k].guid>>]
       IN (IF FeedFails(p) THEN <<>> ELSE ids) \o IdsOfSucceededFeeds(i + 1)

\* C36: crawlSubscribedFeeds does not throw for a feed error; it returns the
\* new episode ids of every feed that succeeded, in subscription order, and
\* lastCrawledAt is unchanged for a failed feed and updated for each feed
\* that succeeded.
C36_FeedFailureDoesNotStopCrawl ==
  crawlOut.pc = "done" =>
    /\ ~crawlOut.threw
    /\ crawlOut.allNewEpisodeIds = IdsOfSucceededFeeds(1)
    /\ \A p \in 1..Len(crawlIn.subscriptions) :
         crawlOut.lastCrawledAt[p] =
           IF FeedFails(p) THEN crawlIn.lastCrawledAt[p] ELSE CrawlNow

\* three feeds with new episodes: the second fails at its second upsert, the
\* first and the third succeed and their ids are returned
C36_Witness ==
  /\ crawlOut.pc = "done"
  /\ Len(crawlIn.subscriptions) = 3
  /\ ~FeedFails(1) /\ FeedFails(2) /\ ~FeedFails(3)
  /\ crawlIn.feeds[2].fail = "upsert"
  /\ <<2, 1>> \in crawlOut.upserted
  /\ Len(NewItemsOf(1)) > 0 /\ Len(NewItemsOf(3)) > 0
  /\ crawlOut.allNewEpisodeIds[1][1] = 1
  /\ crawlOut.allNewEpisodeIds[Len(crawlOut.allNewEpisodeIds)][1] = 3
  /\ crawlOut.lastCrawledAt[2] = 5

\* s holds the elements of t, each as often as t does
IsPermutationOf(s, t) ==
  /\ Len(s) = Len(t)
  /\ \E f \in [1..Len(t) -> 1..Len(t)] :
       /\ \A i, k \in 1..Len(t) : f[i] = f[k] => i = k
       /\ \A i \in 1..Len(t) : s[i] = t[f[i]]

\* clip a may stand before clip b in a digest of the given structure
InStructureOrder(structure, a, b) ==
  CASE structure = "BY_SCORE" -> a.score >= b.score
    [] structure = "BY_SHOW" ->
         \/ a.podcastTitle < b.podcastTitle
         \/ a.podcastTitle = b.podcastTitle /\ a.startTime <= b.startTime
    [] structure = "BY_TOPIC" ->
         \/ a.podcastTitle < b.podcastTitle
         \/ a.podcastTitle = b.podcastTitle /\ a.score >= b.score
    [] structure = "CHRONOLOGICAL" ->
         \/ a.episodeId < b.episodeId
         \/ a.episodeId = b.episodeId /\ a.startTime <= b.startTime

\* C37: the ordering step returns a permutation of the selected clips sorted
\* by the config's structure (byScore: score descending; byShow: podcast
\* title ascending, then start ascending; byTopic: podcast title ascending,
\* then score descending; chronological: episodeId ascending, then start
\* ascending), and the position of each DigestClip row created is the index
\* of its clip in that order.
C37_OrderedByStructure ==
  orderOut.pc = "done" =>
    LET ordered == orderOut.selectedClips
    IN /\ IsPermutationOf(ordered, orderIn.selected)
       /\ \A i, k \in 1..Len(ordered) :
            i < k => InStructureOrder(orderIn.structure, ordered[i], ordered[k])
       /\ Len(orderOut.rows) = Len(ordered)
       /\ \A i \in 1..Len(ordered) :
            /\ orderOut.rows[i].position = i - 1
            /\ orderOut.rows[i].episodeId = ordered[i].episodeId
            /\ orderOut.rows[i].startTime = ordered[i].startTime
            /\ orderOut.rows[i].score = ordered[i].score

\* a byTopic digest of three clips, two of them of one show with different
\* scores, whose order is not the order of selection
C37_Witness ==
  /\ orderOut.pc = "done"
  /\ orderIn.structure = "BY_TOPIC"
  /\ Len(orderOut.selectedClips) = 3
  /\ orderOut.selectedClips # orderIn.selected
  /\ \E i, k \in 1..3 :
       /\ i < k
       /\ orderOut.selectedClips[i].podcastTitle = orderOut.selectedClips[k].podcastTitle
       /\ orderOut.selectedClips[i].score > orderOut.selectedClips[k].score
       /\ orderOut.selectedClips[i].startTime > orderOut.selectedClips[k].startTime
  /\ orderOut.rows[3].position = 2

\* digest d is in the run that trigger began: it was never retried
InFirstRun(d) == d \in DigestIds /\ retryNonce[d] = 0

C39_RetriedDigestReachesTerminal ==
  \A d \in 1..MaxDigests :
    (d \in DigestIds /\ retryNonce[d] > 0 /\ digests[d].status \notin Terminal)
      ~> (d \in DigestIds /\ digests[d].status \in Terminal)

\* the re-run of a retried digest has stalled: its crawl job handed on under
\* the id of the retained failed transcribe job of the first run, no job of
\* the digest is waiting or being processed, and the status is in-progress
C39_StalledAfterRetry ==
  \E d \in DigestIds :
    /\ retryNonce[d] > 0
    /\ digests[d].status = "CRAWLING"
    /\ \E j \in jobs : j.queue = "crawl" /\ j.digestId = d /\ j.nonce = retryNonce[d]
                       /\ j.state = "completed"
    /\ \E j \in jobs : j.queue = "transcribe" /\ j.digestId = d /\ j.nonce = 0
                       /\ j.state = "failed"
    /\ \A j \in jobs : j.digestId = d => j.state \in {"completed", "failed"}

====
